---- MODULE Spec2Model ----
(***************************************************************************)
(* Model of the SketchDuel WebSocket coordination server                   *)
(* (src/server/websocket.ts): connection registry, matchmaking queue,       *)
(* game rooms with their turn state machine, and the persistence calls     *)
(* the handlers await.  Every await of the source is a suspension point:   *)
(* the part of a handler before an await and the part after it are         *)
(* separate steps, and other events may be handled in between.             *)
(***************************************************************************)
EXTENDS Integers, Sequences, FiniteSets, Bags, TLC

\* ---- bounds of the model ------------------------------------------------
MaxConns == 3          \* sockets ever accepted by the server
MaxGames == 2          \* game rows storage.createGame ever returns
MaxMatchTasks == 2     \* attemptMatchmaking invocations suspended at once
MaxSubmitTasks == 2    \* handleSubmitTurn invocations suspended at once
MaxTime == 1           \* clock ticks after start-up
MaxQueueConns == 2     \* sockets accepted in SpecQueue
MaxQueueTasks == 1     \* attemptMatchmaking invocations suspended at once in SpecQueue
MaxRateTime == 2       \* steps of the millisecond clock in SpecRate
MaxOverLimit == 1      \* frames a connection sends beyond the limit of a window
MaxTimeoutSteps == 4   \* steps of the millisecond clock in SpecTimeout
MaxSockets == 2        \* WebSocket objects of the client that are alive at a time
MaxTurns == 2          \* turns the game screen submits
MaxLeaked == 1         \* retry timeouts of the game screen that no ref holds
MaxAttempts == 6       \* reconnects the client schedules in a row

\* ---- program constants ---------------------------------------------------
MATCHMAKING_TIMEOUT == 120000
ROOM_CLEANUP_DELAY == 120000
TOTAL_ROUNDS == 3
PairSize == 2          \* waiters that make a pair: matchmakingQueue.length >= 2
MAX_MESSAGES_PER_MINUTE == 300
RATE_LIMIT_WINDOW == 60000
\* milliseconds that one tick of the model's clock stands for
TickMs == 150000
\* milliseconds of one step of the millisecond clock; two steps exceed
\* RATE_LIMIT_WINDOW, one step does not
RateStepMs == 40000

ConnIds == 1..MaxConns
GameIds == 1..MaxGames
NoConn == 0            \* null PlayerConnection reference
NoGame == 0            \* null gameId
NullTime == 0          \* null completedAt (Date.now() is never 0)
NullRole == "null"     \* null playerRole

VARIABLES
    connections,        \* keys of the connections Map
    conn,               \* the PlayerConnection objects (they outlive the Map entry)
    matchmakingQueue,   \* string[] of connection ids
    gameRooms,          \* keys of the gameRooms Map
    room,               \* the GameRoom objects (they outlive the Map entry)
    games,              \* persisted game rows (storage)
    turns,              \* persisted turn records (storage), a bag of <<gameId, playerRole, round>>
    pendingWrites,      \* gameIds with an un-awaited updateGame({status: "abandoned"}) in flight
    matchTasks,         \* suspended attemptMatchmaking invocations (a bag)
    submitTasks,        \* suspended handleSubmitTurn invocations (a bag)
    sent,               \* frames written to sockets by the last step, in order
    now,                \* the ticks of TickMs that Date.now() has reached
    ms,                 \* milliseconds of Date.now() beyond the tick: Date.now() = now * TickMs + ms
    passed,             \* history: per connection, how many frames passed isRateLimited at
                        \* the previous and at the current instant of the millisecond clock
    nextConnId,         \* next id generateId() hands out
    leftQueue,          \* history: the connections that were sent queue_left and have sent
                        \* no join_queue since
    client,             \* the state of one client (WebSocketProvider): its React state,
                        \* its refs and the WebSocket objects it has created
    screen              \* the game screen of that client: its state, refs and timers

vars == <<connections, conn, matchmakingQueue, gameRooms, room, games, turns,
          pendingWrites, matchTasks, submitTasks, sent, now, ms, passed, nextConnId,
          leftQueue, client, screen>>

\* the variables of the server
serverVars == <<connections, conn, matchmakingQueue, gameRooms, room, games, turns,
                pendingWrites, matchTasks, submitTasks, sent, now, ms, passed,
                nextConnId, leftQueue>>

\* The whole server state as one record, so that the source's functions can be
\* written as functions from state to state and composed inside one step.
Cur ==
    [connections |-> connections, conn |-> conn, matchmakingQueue |-> matchmakingQueue,
     gameRooms |-> gameRooms, room |-> room, games |-> games, turns |-> turns,
     pendingWrites |-> pendingWrites, matchTasks |-> matchTasks,
     submitTasks |-> submitTasks, sent |-> <<>>, now |-> now, ms |-> ms,
     passed |-> passed, nextConnId |-> nextConnId, leftQueue |-> leftQueue]

Commit(S) ==
    /\ connections' = S.connections
    /\ conn' = S.conn
    /\ matchmakingQueue' = S.matchmakingQueue
    /\ gameRooms' = S.gameRooms
    /\ room' = S.room
    /\ games' = S.games
    /\ turns' = S.turns
    /\ pendingWrites' = S.pendingWrites
    /\ matchTasks' = S.matchTasks
    /\ submitTasks' = S.submitTasks
    /\ sent' = S.sent
    /\ now' = S.now
    /\ ms' = S.ms
    /\ passed' = S.passed
    /\ nextConnId' = S.nextConnId
    /\ leftQueue' = S.leftQueue
    /\ client' = client
    /\ screen' = screen

\* ---- initial objects -----------------------------------------------------
NewConn ==
    [gameId |-> NoGame, playerRole |-> NullRole, isAlive |-> TRUE,
     messageCount |-> 0, rateLimitReset |-> 0,
     joinedAt |-> NullTime, readyState |-> "CONNECTING"]

\* Date.now() in milliseconds
DateNow(S) == S.now * TickMs + S.ms

NonePassed == [prev |-> 0, cur |-> 0]

NoRoom ==
    [player1 |-> NoConn, player2 |-> NoConn, currentRound |-> 1,
     currentPlayer |-> "player1", totalRounds |-> TOTAL_ROUNDS,
     status |-> "none", completedAt |-> NullTime]

NoRow == [status |-> "none"]

SockIds == 1..MaxSockets
NoSock == 0            \* wsRef.current === null

\* the WebSocketProvider at its first render
NewClient ==
    [mounted |-> TRUE, matchStatus |-> "idle", pendingStatus |-> "none",
     connectionStatus |-> "disconnected", wsRef |-> NoSock,
     sock |-> [k \in SockIds |-> "NONE"], reconnectAttempt |-> 0,
     reconnectTimer |-> 0, timerPending |-> FALSE, pingTimer |-> FALSE,
     intentionalClose |-> FALSE, shouldReconnect |-> FALSE, out |-> <<>>]

\* the game screen before it is mounted.  isSubmitting and myTurn are the values
\* React holds, seenSubmitting and seenMyTurn the ones the callbacks of the last
\* render closed over; passed is the copy handed to ws.submitTurn by the step
\* (0: none), settled the last turn whose resending an event has ended
NewScreen ==
    [mounted |-> FALSE, navigated |-> FALSE, isSubmitting |-> FALSE,
     seenSubmitting |-> FALSE, myTurn |-> FALSE, seenMyTurn |-> FALSE,
     pendingSubmit |-> 0, retryLive |-> FALSE, retryDelay |-> 0, leaked |-> 0,
     turnNo |-> 0, passed |-> 0, settled |-> 0]

Init ==
    /\ connections = {}
    /\ conn = [c \in ConnIds |-> NewConn]
    /\ matchmakingQueue = <<>>
    /\ gameRooms = {}
    /\ room = [g \in GameIds |-> NoRoom]
    /\ games = [g \in GameIds |-> NoRow]
    /\ turns = EmptyBag
    /\ pendingWrites = {}
    /\ matchTasks = EmptyBag
    /\ submitTasks = EmptyBag
    /\ sent = <<>>
    /\ now = 1
    /\ ms = 0
    /\ passed = [c \in ConnIds |-> NonePassed]
    /\ nextConnId = 1
    /\ leftQueue = {}
    /\ client = NewClient
    /\ screen = NewScreen

\* ---- helpers ---------------------------------------------------------------
OtherRole(role) == IF role = "player1" THEN "player2" ELSE "player1"

\* room[role] for a role held in a string
Seat(r, role) == IF role = "player1" THEN r.player1 ELSE r.player2

\* conn.ws.readyState === WebSocket.OPEN
IsOpen(S, c) == S.conn[c].readyState = "OPEN"

sendMessage(S, c, message) ==
    IF IsOpen(S, c)
    THEN [S EXCEPT !.sent = Append(@, [to |-> c] @@ message)]
    ELSE S

ErrorMsg(code) == [type |-> "error", code |-> code]

\* sendMessage to a seat that may be empty: if (room.playerN) sendMessage(...)
sendToSeat(S, c, message) == IF c # NoConn THEN sendMessage(S, c, message) ELSE S

RECURSIVE IndexOf(_, _, _)
IndexOf(q, x, i) ==
    IF i > Len(q) THEN 0
    ELSE IF q[i] = x THEN i
    ELSE IndexOf(q, x, i + 1)

Splice(q, i) == SubSeq(q, 1, i - 1) \o SubSeq(q, i + 1, Len(q))

Includes(q, x) == \E i \in 1..Len(q) : q[i] = x

removeFromQueue(S, connId) ==
    LET idx == IndexOf(S.matchmakingQueue, connId, 1)
    IN  IF idx # 0 THEN [S EXCEPT !.matchmakingQueue = Splice(@, idx)] ELSE S

\* ---- cleanupConnection ------------------------------------------------------
SetSeatNull(S, g, role) ==
    IF role = "player1" THEN [S EXCEPT !.room[g].player1 = NoConn]
    ELSE [S EXCEPT !.room[g].player2 = NoConn]

AbandonRoom(S, g) ==
    IF S.room[g].status # "completed"
    THEN [S EXCEPT !.room[g].status = "abandoned",
                   !.room[g].completedAt = DateNow(S),
                   !.pendingWrites = @ \cup {g}]
    ELSE S

DeleteIfEmpty(S, g) ==
    IF S.room[g].player1 = NoConn /\ S.room[g].player2 = NoConn
    THEN [S EXCEPT !.gameRooms = @ \ {g}]
    ELSE S

\* cleanupConnection without the early return for an unregistered connection
cleanupConnectionAgain(S, connId) ==
    LET S1 == removeFromQueue(S, connId)
        c == S1.conn[connId]
        g == c.gameId
        S2 == IF g # NoGame /\ c.playerRole # NullRole /\ g \in S1.gameRooms
              THEN LET otherConn == Seat(S1.room[g], OtherRole(c.playerRole))
                       A == SetSeatNull(S1, g, c.playerRole)
                       B == sendToSeat(A, otherConn, [type |-> "opponent_disconnected"])
                       C == AbandonRoom(B, g)
                   IN  DeleteIfEmpty(C, g)
              ELSE S1
    IN  [S2 EXCEPT !.connections = @ \ {connId}]

cleanupConnection(S, connId) ==
    IF connId \notin S.connections THEN S
    ELSE
      LET S1 == removeFromQueue(S, connId)
          c == S1.conn[connId]
          g == c.gameId
          S2 == IF g # NoGame /\ c.playerRole # NullRole /\ g \in S1.gameRooms
                THEN LET otherConn == Seat(S1.room[g], OtherRole(c.playerRole))
                         A == SetSeatNull(S1, g, c.playerRole)
                         B == sendToSeat(A, otherConn, [type |-> "opponent_disconnected"])
                         C == AbandonRoom(B, g)
                     IN  DeleteIfEmpty(C, g)
                ELSE S1
      IN  [S2 EXCEPT !.connections = @ \ {connId}]

\* ---- socket life cycle --------------------------------------------------------
\* wss.on("connection"): a new PlayerConnection is registered
Connect ==
    /\ nextConnId <= MaxConns
    /\ Commit([Cur EXCEPT !.connections = @ \cup {nextConnId},
                          !.conn[nextConnId] = [NewConn EXCEPT !.readyState = "OPEN",
                                                               !.rateLimitReset =
                                                                  DateNow(Cur) + RATE_LIMIT_WINDOW,
                                                               !.joinedAt = DateNow(Cur)],
                          !.nextConnId = @ + 1])

\* the socket stops being OPEN (peer closed, network loss, terminate()); the
\* "close" event is delivered later
SocketClose(c) ==
    /\ conn[c].readyState = "OPEN"
    /\ Commit([Cur EXCEPT !.conn[c].readyState = "CLOSED"])

\* the server closes the socket: conn.ws.terminate(), or a failure of the receiver
Terminate(S, c) == [S EXCEPT !.conn[c].readyState = "CLOSED"]

\* ws.on("close") and ws.on("error"): both call cleanupConnection(connId)
CloseEvent(c) ==
    /\ conn[c].readyState = "CLOSED"
    /\ c \in connections
    /\ Commit(cleanupConnection(Cur, c))

\* ws.on("error"): the socket failed; the event may come before or after "close"
\* and after a heartbeat termination, and calls cleanupConnection(connId) too
ErrorEvent(c) ==
    /\ conn[c].readyState = "CLOSED"
    /\ Commit(cleanupConnection(Cur, c))

\* the "pong" event of a socket
Pong(c) ==
    /\ c \in connections
    /\ conn[c].readyState = "OPEN"
    /\ ~conn[c].isAlive
    /\ Commit([Cur EXCEPT !.conn[c].isAlive = TRUE])

\* ---- storage (the persistence gateway as the handlers use it) ----------------
\* db.update(games).set(data).where(eq(games.id, id)): no row, no change
updateGame(S, g, data) ==
    IF g \in GameIds /\ S.games[g].status # "none"
    THEN [S EXCEPT !.games[g] = data @@ @]
    ELSE S

\* the id of the row a successful createGame inserts
FreshGameIds(S) == {g \in GameIds : S.games[g].status = "none"}
NewGameId(S) == CHOOSE g \in FreshGameIds(S) : \A h \in FreshGameIds(S) : g <= h

createGame(S, g) ==
    [S EXCEPT !.games[g] = [status |-> "waiting"]]

createTurn(S, gameId, playerRole, round) ==
    [S EXCEPT !.turns = @ (+) SetToBag({<<gameId, playerRole, round>>})]

\* the un-awaited updateGame(gameId, {status: "abandoned"}) of cleanupConnection
\* completes, successfully or not (its .catch only logs)
AbandonWriteDone(g, ok) ==
    /\ g \in pendingWrites
    /\ LET S == [Cur EXCEPT !.pendingWrites = @ \ {g}]
       IN  Commit(IF ok THEN updateGame(S, g, [status |-> "abandoned"]) ELSE S)

\* ---- attemptMatchmaking --------------------------------------------------------
Live(S, c) == c \in S.connections /\ IsOpen(S, c)

\* The while loop from its head up to the next await (storage.createGame), where
\* the invocation joins the suspended ones, or up to its exit.
RECURSIVE MatchLoop(_)
MatchLoop(S) ==
    LET q == S.matchmakingQueue
    IN  IF Len(q) < 2 THEN S
        ELSE
          LET p1Id == q[1]
              p2Id == q[2]
              rest == SubSeq(q, 3, Len(q))
          IN  IF ~Live(S, p1Id)
              THEN MatchLoop([S EXCEPT !.matchmakingQueue =
                                 IF Live(S, p2Id) THEN <<p2Id>> \o rest ELSE rest])
              ELSE IF ~Live(S, p2Id)
              THEN MatchLoop([S EXCEPT !.matchmakingQueue = <<p1Id>> \o rest])
              ELSE [S EXCEPT !.matchmakingQueue = rest,
                             !.matchTasks = @ (+) SetToBag({[pc |-> "createGame",
                                 p1Id |-> p1Id, p2Id |-> p2Id, gameId |-> NoGame]})]

\* catch (err): matchmakingQueue.unshift(p1Id); matchmakingQueue.unshift(p2Id);
Requeue(q, p1Id, p2Id) == <<p2Id>> \o (<<p1Id>> \o q)

\* a catch that puts the pair back and leaves the pairing loop
MatchCatchStop(S, t) ==
    [S EXCEPT !.matchmakingQueue = Requeue(@, t.p1Id, t.p2Id)]

\* ... and the while loop goes on to its next iteration
MatchCatch(S, t) ==
    MatchLoop([S EXCEPT !.matchmakingQueue = Requeue(@, t.p1Id, t.p2Id)])

NewRoom(p1Id, p2Id) ==
    [player1 |-> p1Id, player2 |-> p2Id, currentRound |-> 1,
     currentPlayer |-> "player1", totalRounds |-> TOTAL_ROUNDS,
     status |-> "active", completedAt |-> NullTime]

\* lines 174-194: the room is registered and both connections are bound, then
\* the invocation suspends on storage.updateGame
CreateRoom(S, t, g) ==
    LET A == [S EXCEPT !.room[g] = NewRoom(t.p1Id, t.p2Id),
                       !.gameRooms = @ \cup {g}]
        B == [A EXCEPT !.conn[t.p1Id].gameId = g, !.conn[t.p1Id].playerRole = "player1"]
        C == [B EXCEPT !.conn[t.p2Id].gameId = g, !.conn[t.p2Id].playerRole = "player2"]
    IN  [C EXCEPT !.matchTasks = @ (+) SetToBag({[t EXCEPT !.pc = "updateGame",
                                                           !.gameId = g]})]

InitialState(g) ==
    [type |-> "game_state", gameId |-> g, currentRound |-> 1,
     currentPlayer |-> "player1", totalRounds |-> 3, status |-> "active"]

\* lines 196-226
AnnounceMatch(S, t) ==
    LET g == t.gameId
        A == sendMessage(S, t.p1Id, [type |-> "match_found", gameId |-> g,
                                     playerRole |-> "player1", opponentName |-> t.p2Id])
        B == sendMessage(A, t.p2Id, [type |-> "match_found", gameId |-> g,
                                     playerRole |-> "player2", opponentName |-> t.p1Id])
        C == sendMessage(B, t.p1Id, InitialState(g))
    IN  sendMessage(C, t.p2Id, InitialState(g))

\* the state in which the suspended invocation t resumes
ResumeMatch(t) == [Cur EXCEPT !.matchTasks = @ (-) SetToBag({t})]

\* storage.createGame settles for the suspended invocation t
MatchCreateGameDone(t, ok) ==
    /\ BagIn(t, matchTasks)
    /\ t.pc = "createGame"
    /\ IF ok
       THEN /\ FreshGameIds(Cur) # {}
            /\ LET g == NewGameId(Cur)
               IN  Commit(CreateRoom(createGame(ResumeMatch(t), g), t, g))
       ELSE Commit(MatchCatch(ResumeMatch(t), t))

\* storage.updateGame(gameId, {status: "active"}) settles for the suspended invocation t
MatchUpdateGameDone(t, ok) ==
    /\ BagIn(t, matchTasks)
    /\ t.pc = "updateGame"
    /\ IF ok
       THEN Commit(MatchLoop(AnnounceMatch(
                updateGame(ResumeMatch(t), t.gameId, [status |-> "active"]), t)))
       ELSE Commit(MatchCatch(ResumeMatch(t), t))

\* attemptMatchmaking() called from the join_queue case
attemptMatchmaking(S) == MatchLoop(S)

\* ---- handleSubmitTurn -------------------------------------------------------------
\* lines 238-265: the checks, then the call of storage.createTurn, whose arguments
\* are read before the handler suspends
handleSubmitTurn(S, c) ==
    LET cn == S.conn[c]
        g == cn.gameId
    IN  IF g = NoGame \/ cn.playerRole = NullRole
        THEN sendMessage(S, c, ErrorMsg("NOT_IN_GAME"))
        ELSE IF g \notin S.gameRooms
        THEN sendMessage(S, c, ErrorMsg("ROOM_NOT_FOUND"))
        ELSE IF S.room[g].status = "completed"
        THEN sendMessage(S, c, ErrorMsg("GAME_COMPLETED"))
        ELSE IF S.room[g].currentPlayer # cn.playerRole
        THEN sendMessage(S, c, ErrorMsg("NOT_YOUR_TURN"))
        ELSE [S EXCEPT !.submitTasks = @ (+) SetToBag({
                 [pc |-> "createTurn", conn |-> c, room |-> g, kind |-> "none",
                  nextRound |-> 0, tGameId |-> g, tRole |-> cn.playerRole,
                  tRound |-> S.room[g].currentRound]})]

\* lines 267-284
SendTurnSubmitted(S, t) ==
    LET cn == S.conn[t.conn]
        r == S.room[t.room]
        otherConn == Seat(r, OtherRole(cn.playerRole))
        m == [type |-> "turn_submitted", playerRole |-> cn.playerRole,
              round |-> r.currentRound]
    IN  sendMessage(sendToSeat(S, otherConn, m), t.conn, m)

\* the invocation t suspends on storage.updateGame; its first argument,
\* conn.gameId, is read at the call
AwaitUpdate(S, t, kind, nextRound) ==
    [S EXCEPT !.submitTasks = @ (+) SetToBag({
        [t EXCEPT !.pc = "updateGame", !.kind = kind, !.nextRound = nextRound,
                  !.tGameId = S.conn[t.conn].gameId]})]

\* a transition that ends the game only after the round counter has passed
\* totalRounds
AdvanceTurnOneMore(S, t) ==
    LET g == t.room
        r == S.room[g]
    IN  IF r.currentPlayer = "player2"
        THEN IF r.currentRound > r.totalRounds
             THEN AwaitUpdate([S EXCEPT !.room[g].status = "completed",
                                        !.room[g].completedAt = DateNow(S),
                                        !.room[g].currentPlayer = "player1"],
                              t, "complete", 0)
             ELSE AwaitUpdate([S EXCEPT !.room[g].currentRound = r.currentRound + 1,
                                        !.room[g].currentPlayer = "player1"],
                              t, "round", r.currentRound + 1)
        ELSE AwaitUpdate([S EXCEPT !.room[g].currentPlayer = "player2"], t, "flip", 0)

\* lines 286-338: the in-memory transition and the call of storage.updateGame
AdvanceTurn(S, t) ==
    LET g == t.room
        r == S.room[g]
    IN  IF r.currentPlayer = "player2"
        THEN IF r.currentRound >= r.totalRounds
             THEN AwaitUpdate([S EXCEPT !.room[g].status = "completed",
                                        !.room[g].completedAt = DateNow(S),
                                        !.room[g].currentPlayer = "player1"],
                              t, "complete", 0)
             ELSE AwaitUpdate([S EXCEPT !.room[g].currentRound = r.currentRound + 1,
                                        !.room[g].currentPlayer = "player1"],
                              t, "round", r.currentRound + 1)
        ELSE AwaitUpdate([S EXCEPT !.room[g].currentPlayer = "player2"], t, "flip", 0)

\* catch (err), lines 351-354
SubmitCatch(S, t) == sendMessage(S, t.conn, ErrorMsg("SUBMIT_FAILED"))

\* the state in which the suspended invocation t resumes
ResumeSubmit(t) == [Cur EXCEPT !.submitTasks = @ (-) SetToBag({t})]

\* storage.createTurn settles for the suspended invocation t
SubmitCreateTurnDone(t, ok) ==
    /\ BagIn(t, submitTasks)
    /\ t.pc = "createTurn"
    /\ IF ok
       THEN Commit(AdvanceTurn(SendTurnSubmitted(
                createTurn(ResumeSubmit(t), t.tGameId, t.tRole, t.tRound), t), t))
       ELSE Commit(SubmitCatch(ResumeSubmit(t), t))

\* the columns of the game row the storage.updateGame call in flight writes
\* (the model keeps the status column only)
UpdateData(t) ==
    IF t.kind = "complete" THEN [status |-> "completed"] ELSE << >>

sendToSeats(S, g, message) ==
    sendToSeat(sendToSeat(S, S.room[g].player1, message), S.room[g].player2, message)

\* lines 299-301, 314-331, 340-349: the frames sent once storage.updateGame resolved
AnnounceTurn(S, t) ==
    LET g == t.room
        r == S.room[g]
        id == S.conn[t.conn].gameId
    IN  CASE t.kind = "complete" ->
               sendToSeats(S, g, [type |-> "game_complete", gameId |-> id])
          [] t.kind = "round" ->
               sendToSeats(
                 sendToSeats(S, g, [type |-> "round_complete",
                                    round |-> r.currentRound - 1,
                                    nextRound |-> t.nextRound]),
                 g, [type |-> "game_state", gameId |-> id, currentRound |-> t.nextRound,
                     currentPlayer |-> "player1", totalRounds |-> r.totalRounds,
                     status |-> "active"])
          [] OTHER ->
               sendToSeats(S, g, [type |-> "game_state", gameId |-> id,
                                  currentRound |-> r.currentRound,
                                  currentPlayer |-> "player2",
                                  totalRounds |-> r.totalRounds, status |-> "active"])

\* storage.updateGame settles for the suspended invocation t
SubmitUpdateGameDone(t, ok) ==
    /\ BagIn(t, submitTasks)
    /\ t.pc = "updateGame"
    /\ IF ok
       THEN Commit(AnnounceTurn(updateGame(ResumeSubmit(t), t.tGameId, UpdateData(t)), t))
       ELSE Commit(SubmitCatch(ResumeSubmit(t), t))

\* ---- handleMessage ------------------------------------------------------------------
Digits == {"0", "1", "2", "3", "4", "5", "6", "7", "8", "9"}
HexLetters == {"a", "b", "c", "d", "e", "f", "A", "B", "C", "D", "E", "F"}
Letters ==
    HexLetters \cup
    {"g", "h", "i", "j", "k", "l", "m", "n", "o", "p", "q", "r", "s", "t", "u", "v",
     "w", "x", "y", "z", "G", "H", "I", "J", "K", "L", "M", "N", "O", "P", "Q", "R",
     "S", "T", "U", "V", "W", "X", "Y", "Z"}

\* /^[MLml\d\s,.\-]+$/ on a string given as its sequence of characters
pathRegex(path) ==
    /\ Len(path) >= 1
    /\ \A i \in 1..Len(path) :
          path[i] \in {"M", "L", "m", "l", " ", ",", ".", "-"} \cup Digits

\* /^#[0-9A-Fa-f]{3,8}$|^[a-zA-Z]+$/
colorRegex(color) ==
    \/ /\ Len(color) >= 1
       /\ color[1] = "#"
       /\ Len(color) - 1 >= 3
       /\ Len(color) - 1 <= 8
       /\ \A i \in 2..Len(color) : color[i] \in Digits \cup HexLetters
    \/ /\ Len(color) >= 1
       /\ \A i \in 1..Len(color) : color[i] \in Letters

\* the discriminator values wsClientMessageSchema accepts (src/shared/schema.ts)
SchemaTypes == {"join_queue", "leave_queue", "draw_stroke", "draw_clear", "submit_turn", "ping"}

\* the members of the draw_stroke object that the model keeps: color is a string
\* of at most 20 characters, strokeWidth a number from 1 to 50
StrokeSchema(stroke) ==
    /\ Len(stroke.color) <= 20
    /\ stroke.strokeWidth >= 1
    /\ stroke.strokeWidth <= 50

wsClientMessageSchema(parsed) ==
    /\ parsed.type \in SchemaTypes
    /\ parsed.type = "draw_stroke" => StrokeSchema(parsed.stroke)

\* a join_queue case that does not look for the id in the queue
JoinQueueUnchecked(S, c) ==
    IF S.conn[c].gameId # NoGame
    THEN sendMessage(S, c, ErrorMsg("ALREADY_IN_GAME"))
    ELSE LET A == [S EXCEPT !.conn[c].joinedAt = DateNow(S),
                            !.matchmakingQueue = Append(@, c)]
             B == sendMessage(A, c, [type |-> "queue_joined",
                                     position |-> Len(A.matchmakingQueue)])
         IN  attemptMatchmaking(B)

\* case "join_queue"
JoinQueue(S, c) ==
    IF S.conn[c].gameId # NoGame
    THEN sendMessage(S, c, ErrorMsg("ALREADY_IN_GAME"))
    ELSE IF Includes(S.matchmakingQueue, c)
    THEN sendMessage(S, c, ErrorMsg("ALREADY_IN_QUEUE"))
    ELSE LET A == [S EXCEPT !.conn[c].joinedAt = DateNow(S),
                            !.matchmakingQueue = Append(@, c)]
             B == sendMessage(A, c, [type |-> "queue_joined",
                                     position |-> Len(A.matchmakingQueue)])
         IN  attemptMatchmaking(B)

\* case "draw_stroke"
DrawStroke(S, c, stroke) ==
    LET cn == S.conn[c]
        g == cn.gameId
    IN  IF g = NoGame \/ cn.playerRole = NullRole
        THEN sendMessage(S, c, ErrorMsg("NOT_IN_GAME"))
        ELSE IF g \notin S.gameRooms \/ S.room[g].currentPlayer # cn.playerRole
        THEN S
        ELSE IF ~pathRegex(stroke.path)
        THEN sendMessage(S, c, ErrorMsg("INVALID_STROKE"))
        ELSE IF ~colorRegex(stroke.color)
        THEN sendMessage(S, c, ErrorMsg("INVALID_STROKE"))
        ELSE sendToSeat(S, Seat(S.room[g], OtherRole(cn.playerRole)),
                        [type |-> "opponent_stroke", stroke |-> stroke])

\* case "draw_undo"
DrawUndo(S, c) ==
    LET cn == S.conn[c]
        g == cn.gameId
    IN  IF g = NoGame \/ cn.playerRole = NullRole
        THEN sendMessage(S, c, ErrorMsg("NOT_IN_GAME"))
        ELSE IF g \notin S.gameRooms \/ S.room[g].currentPlayer # cn.playerRole
        THEN S
        ELSE sendToSeat(S, Seat(S.room[g], OtherRole(cn.playerRole)),
                        [type |-> "opponent_undo"])

\* case "draw_clear"
DrawClear(S, c) ==
    LET cn == S.conn[c]
        g == cn.gameId
    IN  IF g = NoGame \/ cn.playerRole = NullRole
        THEN sendMessage(S, c, ErrorMsg("NOT_IN_GAME"))
        ELSE IF g \notin S.gameRooms
        THEN sendMessage(S, c, ErrorMsg("ROOM_NOT_FOUND"))
        ELSE IF S.room[g].currentPlayer # cn.playerRole
        THEN sendMessage(S, c, ErrorMsg("NOT_YOUR_TURN"))
        ELSE sendToSeat(S, Seat(S.room[g], OtherRole(cn.playerRole)),
                        [type |-> "opponent_clear"])

\* the switch of lines 396-491
Dispatch(S, c, msg) ==
    CASE msg.type = "ping" -> sendMessage(S, c, [type |-> "pong"])
      [] msg.type = "join_queue" -> JoinQueue(S, c)
      [] msg.type = "leave_queue" ->
           sendMessage(removeFromQueue(S, c), c, [type |-> "queue_left"])
      [] msg.type = "draw_stroke" -> DrawStroke(S, c, msg.stroke)
      [] msg.type = "draw_undo" -> DrawUndo(S, c)
      [] msg.type = "draw_clear" -> DrawClear(S, c)
      [] msg.type = "submit_turn" -> handleSubmitTurn(S, c)
      [] OTHER -> S

\* isRateLimited(conn): the counters of the connection after the call ...
RateCount(S, c) ==
    LET A == IF DateNow(S) > S.conn[c].rateLimitReset
             THEN [S EXCEPT !.conn[c].messageCount = 0,
                            !.conn[c].rateLimitReset = DateNow(S) + RATE_LIMIT_WINDOW]
             ELSE S
    IN  [A EXCEPT !.conn[c].messageCount = @ + 1]

\* ... and the value it returns
isRateLimited(S, c) == RateCount(S, c).conn[c].messageCount > MAX_MESSAGES_PER_MINUTE

\* A frame is [size, json, parsed]: what data.toString() gives ("throws", or a
\* string whose length is "too_large" or "ok" for MAX_MESSAGE_SIZE), whether
\* JSON.parse succeeds, and the parsed value.  limited is the verdict of
\* isRateLimited(conn) for this frame.
handleMessage(S, c, limited, frame) ==
    IF limited THEN sendMessage(S, c, ErrorMsg("RATE_LIMITED"))
    ELSE IF frame.size = "throws" THEN sendMessage(S, c, ErrorMsg("INVALID_ENCODING"))
    ELSE IF frame.size = "too_large" THEN sendMessage(S, c, ErrorMsg("MESSAGE_TOO_LARGE"))
    ELSE IF ~frame.json THEN sendMessage(S, c, ErrorMsg("INVALID_JSON"))
    ELSE IF ~wsClientMessageSchema(frame.parsed)
    THEN sendMessage(S, c, ErrorMsg("VALIDATION_FAILED"))
    ELSE Dispatch(S, c, frame.parsed)

\* frames the clients send in the model
SampleStrokes ==
    {[path |-> <<"M", "1", ",", "2", "L", "3">>, color |-> <<"#", "f", "0", "0">>,
      strokeWidth |-> 4],
     [path |-> <<"M", "1", "<">>, color |-> <<"r", "e", "d">>, strokeWidth |-> 4],
     [path |-> <<"m", "0">>, color |-> <<"#", "f">>, strokeWidth |-> 4],
     [path |-> <<"m", "0">>, color |-> <<"r", "e", "d">>, strokeWidth |-> 0]}

ParsedValues ==
    {[type |-> t] : t \in {"join_queue", "leave_queue", "draw_undo", "draw_clear",
                           "submit_turn", "ping", "bogus"}}
    \cup {[type |-> "draw_stroke", stroke |-> k] : k \in SampleStrokes}

Frames ==
    {[size |-> "throws", json |-> TRUE, parsed |-> [type |-> "ping"]],
     [size |-> "too_large", json |-> TRUE, parsed |-> [type |-> "ping"]],
     [size |-> "ok", json |-> FALSE, parsed |-> [type |-> "ping"]]}
    \cup {[size |-> "ok", json |-> TRUE, parsed |-> m] : m \in ParsedValues}


\* ws.on("message") with the verdict of the rate limiter as an input: any verdict
\* the counters of the connection could give, the counters themselves being left
\* out; a message that would suspend more invocations than the model's bounds
\* allow is not delivered
Message(c, limited, frame) ==
    /\ c \in connections
    /\ conn[c].readyState = "OPEN"
    /\ LET S == handleMessage(Cur, c, limited, frame)
       IN  /\ BagCardinality(S.matchTasks) <= MaxMatchTasks
           /\ BagCardinality(S.submitTasks) <= MaxSubmitTasks
           /\ Commit(S)

\* The ws receiver (maxPayload: MAX_MESSAGE_SIZE).  A frame of more than
\* MAX_MESSAGE_SIZE bytes is not delivered to the "message" handler: the receiver
\* fails, the socket is closed and its "error" event runs cleanupConnection.  A
\* string of more than MAX_MESSAGE_SIZE characters has more bytes than that, so
\* every frame whose size is "too_large" ends here; any other frame is delivered.
Inbound(c, limited, frame) ==
    IF frame.size = "too_large"
    THEN /\ c \in connections
         /\ conn[c].readyState = "OPEN"
         /\ Commit(cleanupConnection(Terminate(Cur, c), c))
    ELSE Message(c, limited, frame)

\* ws.on("message") with the rate limiter's counters: the verdict is the one
\* isRateLimited computes, and a frame that passes is counted in the history; a
\* connection sends at most MaxOverLimit frames beyond the limit of a window
Receive(c, frame) ==
    /\ c \in connections
    /\ conn[c].readyState = "OPEN"
    /\ LET limited == isRateLimited(Cur, c)
           A == RateCount(Cur, c)
           B == handleMessage(A, c, limited, frame)
       IN  /\ A.conn[c].messageCount <= MAX_MESSAGES_PER_MINUTE + MaxOverLimit
           /\ BagCardinality(B.matchTasks) <= MaxMatchTasks
           /\ BagCardinality(B.submitTasks) <= MaxSubmitTasks
           /\ Commit(IF limited THEN B
                     ELSE [B EXCEPT !.passed[c].cur = @ + 1])

\* ---- timers ----------------------------------------------------------------------------
\* a heartbeatTimer callback that leaves isAlive as it is
HeartbeatOneNoClear(S, c, throws) ==
    IF c \notin S.connections THEN S
    ELSE IF ~S.conn[c].isAlive
    THEN cleanupConnection(Terminate(S, c), c)
    ELSE IF IsOpen(S, c)
    THEN [S EXCEPT !.sent = Append(@, [to |-> c, type |-> "ping"])]
    ELSE IF throws THEN cleanupConnection(Terminate(S, c), c)
    ELSE S

\* heartbeatTimer callback, one connection of the for-of loop.  conn.ws.ping()
\* writes a ping control frame to an open socket; on a socket that is no longer
\* open it throws or does nothing, depending on the ws release (throws).
HeartbeatOne(S, c, throws) ==
    IF c \notin S.connections THEN S
    ELSE IF ~S.conn[c].isAlive
    THEN cleanupConnection(Terminate(S, c), c)
    ELSE LET A == [S EXCEPT !.conn[c].isAlive = FALSE]
         IN  IF IsOpen(A, c)
             THEN [A EXCEPT !.sent = Append(@, [to |-> c, type |-> "ping"])]
             ELSE IF throws THEN cleanupConnection(Terminate(A, c), c)
             ELSE A

RECURSIVE HeartbeatFrom(_, _, _)
HeartbeatFrom(S, c, throws) ==
    IF c > MaxConns THEN S
    ELSE HeartbeatFrom(HeartbeatOne(S, c, throws), c + 1, throws)

HeartbeatSweep(throws) ==
    /\ connections # {}
    /\ Commit(HeartbeatFrom(Cur, 1, throws))

\* a matchmakingTimer callback that evicts a live entry whatever its age
MatchmakingSweepOneAnyAge(S, i) ==
    LET connId == S.matchmakingQueue[i]
    IN  IF ~Live(S, connId)
        THEN [S EXCEPT !.matchmakingQueue = Splice(@, i)]
        ELSE sendMessage([S EXCEPT !.matchmakingQueue = Splice(@, i)], connId,
                         ErrorMsg("MATCHMAKING_TIMEOUT"))

\* matchmakingTimer callback, entry i of the backwards loop
MatchmakingSweepOne(S, i) ==
    LET connId == S.matchmakingQueue[i]
    IN  IF ~Live(S, connId)
        THEN [S EXCEPT !.matchmakingQueue = Splice(@, i)]
        ELSE IF DateNow(S) - S.conn[connId].joinedAt > MATCHMAKING_TIMEOUT
        THEN sendMessage([S EXCEPT !.matchmakingQueue = Splice(@, i)], connId,
                         ErrorMsg("MATCHMAKING_TIMEOUT"))
        ELSE S

RECURSIVE MatchmakingSweepFrom(_, _)
MatchmakingSweepFrom(S, i) ==
    IF i < 1 THEN S ELSE MatchmakingSweepFrom(MatchmakingSweepOne(S, i), i - 1)

MatchmakingSweep ==
    /\ matchmakingQueue # <<>>
    /\ Commit(MatchmakingSweepFrom(Cur, Len(matchmakingQueue)))

Unbind(S, c) ==
    IF c # NoConn
    THEN [S EXCEPT !.conn[c].gameId = NoGame, !.conn[c].playerRole = NullRole]
    ELSE S

\* a roomCleanupTimer callback that removes completed rooms only
RoomCleanupOneCompleted(S, g) ==
    LET r == S.room[g]
    IN  IF /\ g \in S.gameRooms
           /\ r.completedAt # NullTime
           /\ r.status = "completed"
           /\ DateNow(S) - r.completedAt > ROOM_CLEANUP_DELAY
        THEN [Unbind(Unbind(S, r.player1), r.player2) EXCEPT !.gameRooms = @ \ {g}]
        ELSE S

\* a roomCleanupTimer callback that does not wait for ROOM_CLEANUP_DELAY
RoomCleanupOneNoDelay(S, g) ==
    LET r == S.room[g]
    IN  IF /\ g \in S.gameRooms
           /\ r.completedAt # NullTime
           /\ r.status \in {"completed", "abandoned"}
        THEN [Unbind(Unbind(S, r.player1), r.player2) EXCEPT !.gameRooms = @ \ {g}]
        ELSE S

\* roomCleanupTimer callback, one room of the for-of loop
RoomCleanupOne(S, g) ==
    LET r == S.room[g]
    IN  IF /\ g \in S.gameRooms
           /\ r.completedAt # NullTime
           /\ r.status \in {"completed", "abandoned"}
           /\ DateNow(S) - r.completedAt > ROOM_CLEANUP_DELAY
        THEN [Unbind(Unbind(S, r.player1), r.player2) EXCEPT !.gameRooms = @ \ {g}]
        ELSE S

RECURSIVE RoomCleanupFrom(_, _)
RoomCleanupFrom(S, g) ==
    IF g > MaxGames THEN S ELSE RoomCleanupFrom(RoomCleanupOne(S, g), g + 1)

RoomCleanupSweep ==
    /\ gameRooms # {}
    /\ Commit(RoomCleanupFrom(Cur, 1))

Tick ==
    /\ now <= MaxTime
    /\ Commit([Cur EXCEPT !.now = @ + 1])

\* the clock advances by RateStepMs, up to maxSteps times
ClockStep(maxSteps) ==
    /\ ms + RateStepMs <= maxSteps * RateStepMs
    /\ Commit([Cur EXCEPT !.ms = @ + RateStepMs,
                          !.passed = [c \in ConnIds |-> [prev |-> passed[c].cur, cur |-> 0]]])

RateTick == ClockStep(MaxRateTime)

\* a rate-limited frame is discarded unread, so one frame stands for all of them
Verdicts(frame) == IF frame.parsed.type = "ping" /\ frame.size = "ok" /\ frame.json
                   THEN BOOLEAN ELSE {FALSE}

Next ==
    \/ Connect
    \/ \E c \in ConnIds : SocketClose(c)
    \/ \E c \in ConnIds : CloseEvent(c)
    \/ \E c \in ConnIds : Pong(c)
    \/ \E g \in GameIds, ok \in BOOLEAN : AbandonWriteDone(g, ok)
    \/ \E t \in BagToSet(matchTasks), ok \in BOOLEAN : MatchCreateGameDone(t, ok)
    \/ \E t \in BagToSet(matchTasks), ok \in BOOLEAN : MatchUpdateGameDone(t, ok)
    \/ \E t \in BagToSet(submitTasks), ok \in BOOLEAN : SubmitCreateTurnDone(t, ok)
    \/ \E t \in BagToSet(submitTasks), ok \in BOOLEAN : SubmitUpdateGameDone(t, ok)
    \/ \E c \in ConnIds, frame \in Frames : \E limited \in Verdicts(frame) :
          Inbound(c, limited, frame)
    \/ \E throws \in BOOLEAN : HeartbeatSweep(throws)
    \/ \E c \in ConnIds, frame \in Frames : Receive(c, frame)
    \/ MatchmakingSweep
    \/ RoomCleanupSweep
    \/ Tick
    \/ RateTick

Spec == Init /\ [][Next]_vars

\* ---- the turn state machine of one room --------------------------------------------
\* The state right after connections 1 and 2 were paired into game 1
\* (MatchUpdateGameDone has just sent match_found and game_state); from there the
\* two players send in-game frames only.
InitRoom ==
    /\ connections = {1, 2}
    /\ conn = [c \in ConnIds |->
                 IF c = 1 THEN [gameId |-> 1, playerRole |-> "player1", isAlive |-> TRUE,
                                messageCount |-> 0,
                                rateLimitReset |-> TickMs + RATE_LIMIT_WINDOW,
                                joinedAt |-> TickMs, readyState |-> "OPEN"]
                 ELSE IF c = 2 THEN [gameId |-> 1, playerRole |-> "player2",
                                     isAlive |-> TRUE, messageCount |-> 0,
                                     rateLimitReset |-> TickMs + RATE_LIMIT_WINDOW,
                                     joinedAt |-> TickMs, readyState |-> "OPEN"]
                 ELSE NewConn]
    /\ matchmakingQueue = <<>>
    /\ gameRooms = {1}
    /\ room = [g \in GameIds |-> IF g = 1 THEN NewRoom(1, 2) ELSE NoRoom]
    /\ games = [g \in GameIds |->
                  IF g = 1 THEN [status |-> "active"] ELSE NoRow]
    /\ turns = EmptyBag
    /\ pendingWrites = {}
    /\ matchTasks = EmptyBag
    /\ submitTasks = EmptyBag
    /\ sent = <<[to |-> 1, type |-> "match_found", gameId |-> 1,
                 playerRole |-> "player1", opponentName |-> 2],
                [to |-> 2, type |-> "match_found", gameId |-> 1,
                 playerRole |-> "player2", opponentName |-> 1],
                [to |-> 1] @@ InitialState(1),
                [to |-> 2] @@ InitialState(1)>>
    /\ now = 1
    /\ ms = 0
    /\ passed = [c \in ConnIds |-> NonePassed]
    /\ nextConnId = 3
    /\ leftQueue = {}
    /\ client = NewClient
    /\ screen = NewScreen

RoomFrames == {f \in Frames : f.size = "ok" /\ f.json /\ f.parsed.type = "submit_turn"}

NextRoom ==
    \/ \E c \in ConnIds : SocketClose(c)
    \/ \E c \in ConnIds : CloseEvent(c)
    \/ \E g \in GameIds, ok \in BOOLEAN : AbandonWriteDone(g, ok)
    \/ \E t \in BagToSet(submitTasks), ok \in BOOLEAN : SubmitCreateTurnDone(t, ok)
    \/ \E t \in BagToSet(submitTasks), ok \in BOOLEAN : SubmitUpdateGameDone(t, ok)
    \/ \E c \in ConnIds, frame \in RoomFrames : Message(c, FALSE, frame)
    \/ RoomCleanupSweep
    \/ Tick

SpecRoom == InitRoom /\ [][NextRoom]_vars

\* ---- the matchmaking queue ------------------------------------------------------------
\* Connections join and leave the queue, disconnect and are paired, all within one
\* clock tick; no other frame is sent, the un-awaited abandon writes stay in
\* flight, and storage.createGame succeeds only while it has stored no game.
QueueFrames == {f \in Frames : f.size = "ok" /\ f.json /\
                   f.parsed.type \in {"join_queue", "leave_queue"}}

NextQueue ==
    \/ nextConnId <= MaxQueueConns /\ Connect
    \/ \E c \in ConnIds : SocketClose(c)
    \/ \E c \in ConnIds : CloseEvent(c)
    \/ \E t \in BagToSet(matchTasks), ok \in BOOLEAN :
          (ok => FreshGameIds(Cur) = GameIds) /\ MatchCreateGameDone(t, ok)
    \/ \E t \in BagToSet(matchTasks), ok \in BOOLEAN : MatchUpdateGameDone(t, ok)
    \/ \E c \in ConnIds, frame \in QueueFrames :
          Message(c, FALSE, frame) /\ BagCardinality(matchTasks') <= MaxQueueTasks
    \/ MatchmakingSweep

SpecQueue == Init /\ [][NextQueue]_vars

\* ---- pairing order ------------------------------------------------------------------------
\* Connections that stay connected send join_queue while the clock advances.
FifoFrames == {f \in QueueFrames : f.parsed.type = "join_queue"}

NextFifo ==
    \/ Connect
    \/ \E t \in BagToSet(matchTasks), ok \in BOOLEAN : MatchCreateGameDone(t, ok)
    \/ \E t \in BagToSet(matchTasks), ok \in BOOLEAN : MatchUpdateGameDone(t, ok)
    \/ \E c \in ConnIds, frame \in FifoFrames : Message(c, FALSE, frame)
    \/ MatchmakingSweep
    \/ Tick

SpecFifo == Init /\ [][NextFifo]_vars

\* ==== claims ========================================================================
Terminal == {"completed", "abandoned"}

\* this step resumes the suspended handleSubmitTurn invocation t after its
\* storage.createTurn resolved or rejected
SubmitResumed(t) ==
    /\ BagIn(t, submitTasks)
    /\ t.pc = "createTurn"
    /\ CopiesIn(t, submitTasks') = CopiesIn(t, submitTasks) - 1

\* C1: a room's currentPlayer changes only in a step that accepts a submit_turn
\* (the step in which the handler commits the turn after storage.createTurn), and
\* the accepted submit_turn was sent by the seat that currentPlayer names before
\* the step; no other submit_turn, rejected or duplicate, changes currentPlayer.
C1_TurnAlternation ==
    [][\A g \in GameIds :
          room'[g].currentPlayer # room[g].currentPlayer =>
             \E t \in BagToSet(submitTasks) :
                /\ SubmitResumed(t)
                /\ t.room = g
                /\ t.tRole = room[g].currentPlayer]_vars

\* C2: a room's currentRound changes only by +1, and only when player1 and player2
\* have each had a turn of the round that ends accepted (recorded); a second
\* submit_turn of the same seat in that round never advances the round.
C2_RoundAdvance ==
    [][\A g \in GameIds :
          room'[g].currentRound # room[g].currentRound =>
             /\ room'[g].currentRound = room[g].currentRound + 1
             /\ \A role \in {"player1", "player2"} :
                   CopiesIn(<<g, role, room[g].currentRound>>, turns') >= 1]_vars

\* C3: once a room's status is completed or abandoned it never changes again.
C3_TerminalStatus ==
    [][\A g \in GameIds :
          room[g].status \in Terminal => room'[g].status = room[g].status]_vars

\* C4: once a room's status is completed or abandoned, its currentRound and
\* currentPlayer are never modified again.
C4_TerminalFrame ==
    [][\A g \in GameIds :
          room[g].status \in Terminal =>
             /\ room'[g].currentRound = room[g].currentRound
             /\ room'[g].currentPlayer = room[g].currentPlayer]_vars

\* C9: storage never holds two turn records with the same gameId, playerRole and
\* round.
C9_OneTurnRecord == \A e \in BagToSet(turns) : CopiesIn(e, turns) <= 1

\* C10: a room's status becomes completed only in a step that accepts a submit_turn
\* of player2 while currentRound equals totalRounds, when each seat has exactly one
\* turn recorded for every round 1..totalRounds, and that step issues
\* storage.updateGame with status completed.
C10_Completion ==
    [][\A g \in GameIds :
          (room[g].status # "completed" /\ room'[g].status = "completed") =>
             /\ \E t \in BagToSet(submitTasks) :
                   SubmitResumed(t) /\ t.room = g /\ t.tRole = "player2"
             /\ room[g].currentRound = room[g].totalRounds
             /\ \A r \in 1..room[g].totalRounds, role \in {"player1", "player2"} :
                   CopiesIn(<<g, role, r>>, turns') = 1
             /\ \E u \in BagToSet(submitTasks') :
                   u.pc = "updateGame" /\ u.kind = "complete" /\ u.room = g]_vars

\* a connection bound to a room: conn.gameId is set
Bound(c) == conn[c].gameId # NoGame

\* C5: no connection id is at once in matchmakingQueue and bound to a room.
C5_QueuedNotBound ==
    \A c \in ConnIds : ~(Includes(matchmakingQueue, c) /\ Bound(c))

C8_ActiveRoomSeated ==
    \A g \in gameRooms :
        room[g].status = "active" =>
            /\ room[g].player1 \in connections
            /\ room[g].player2 \in connections

\* a connection that joined the queue and is still waiting to be paired: it is
\* live, not bound to a room, and either in the queue or popped by an
\* attemptMatchmaking invocation that is suspended on storage.createGame
Waiting(c) ==
    /\ c \in connections
    /\ conn[c].readyState = "OPEN"
    /\ ~Bound(c)
    /\ \/ Includes(matchmakingQueue, c)
       \/ \E t \in BagToSet(matchTasks) : t.pc = "createGame" /\ c \in {t.p1Id, t.p2Id}

\* C7: when attemptMatchmaking places two connections in a new room, no other
\* connection that is still waiting joined the queue before both of them.
C7_FifoPairing ==
    [][\A g \in GameIds :
          (g \notin gameRooms /\ g \in gameRooms') =>
             \A w \in ConnIds \ {room'[g].player1, room'[g].player2} :
                ~(/\ Waiting(w)
                  /\ conn[w].joinedAt < conn'[room'[g].player1].joinedAt
                  /\ conn[w].joinedAt < conn'[room'[g].player2].joinedAt)]_vars

\* the frame of a submit_turn message
SubmitFrame == [size |-> "ok", json |-> TRUE, parsed |-> [type |-> "submit_turn"]]

\* C11: a submit_turn received from a seat of a room whose status is completed or
\* abandoned is answered with error GAME_COMPLETED and nothing else: no handler is
\* left suspended on storage.createTurn, no turn_submitted is sent and the room is
\* unchanged.
C11_NotActiveRejected ==
    [][\A c \in ConnIds :
          (/\ Message(c, FALSE, SubmitFrame)
           /\ conn[c].gameId \in gameRooms
           /\ conn[c].playerRole # NullRole
           /\ room[conn[c].gameId].status \in Terminal) =>
             /\ sent' = <<[to |-> c] @@ ErrorMsg("GAME_COMPLETED")>>
             /\ submitTasks' = submitTasks
             /\ turns' = turns
             /\ room' = room]_vars

\* ---- pairing while connections come and go ---------------------------------------------
\* Connections send join_queue, are paired and disconnect, within one clock tick.
NextPair ==
    \/ nextConnId <= MaxQueueConns /\ Connect
    \/ \E c \in ConnIds : SocketClose(c)
    \/ \E c \in ConnIds : CloseEvent(c)
    \/ \E t \in BagToSet(matchTasks), ok \in BOOLEAN : MatchCreateGameDone(t, ok)
    \/ \E t \in BagToSet(matchTasks), ok \in BOOLEAN : MatchUpdateGameDone(t, ok)
    \/ \E c \in ConnIds, frame \in FifoFrames :
          Message(c, FALSE, frame) /\ BagCardinality(matchTasks') <= MaxQueueTasks

SpecPair == Init /\ [][NextPair]_vars

\* the seats of room g that connection c occupies
SeatsOf(g, c) == {role \in {"player1", "player2"} : Seat(room[g], role) = c}

\* this step runs cleanupConnection(c) for a registered connection
CleanedUp(c) == c \in connections /\ c \notin connections'

\* C12: when a connection that occupies a seat of an active room is cleaned up, the
\* seat becomes empty, the room becomes abandoned, the abandon write is issued and
\* the other seat's connection, if it is open and stays registered, is sent
\* opponent_disconnected.
C12_DisconnectAbandons ==
    [][\A c \in ConnIds, g \in GameIds, role \in {"player1", "player2"} :
          (/\ CleanedUp(c)
           /\ g \in gameRooms
           /\ room[g].status = "active"
           /\ role \in SeatsOf(g, c)) =>
             /\ Seat(room'[g], role) = NoConn
             /\ room'[g].status = "abandoned"
             /\ g \in pendingWrites'
             /\ LET o == Seat(room[g], OtherRole(role))
                IN  (o # NoConn /\ o \in connections' /\ conn[o].readyState = "OPEN") =>
                       \E i \in 1..Len(sent') :
                          sent'[i] = [to |-> o, type |-> "opponent_disconnected"]]_vars

\* C13: for every registered room completedAt is non-null exactly when status is
\* not active, and a completedAt that has been set never changes.
C13_CompletedAtOnce ==
    [][\A g \in gameRooms \cap gameRooms' :
          /\ (room'[g].completedAt # NullTime) <=> (room'[g].status # "active")
          /\ room[g].completedAt # NullTime =>
                room'[g].completedAt = room[g].completedAt]_vars

\* ---- the ends of a connection ------------------------------------------------------------
\* The two players of a room lose their sockets: close and error events and
\* heartbeat sweeps arrive in any order and number, while the clock advances and
\* the room cleanup timer runs.
NextCleanup ==
    \/ \E c \in ConnIds : SocketClose(c)
    \/ \E c \in ConnIds : CloseEvent(c)
    \/ \E c \in ConnIds : ErrorEvent(c)
    \/ \E c \in ConnIds : Pong(c)
    \/ \E g \in GameIds, ok \in BOOLEAN : AbandonWriteDone(g, ok)
    \/ \E throws \in BOOLEAN : HeartbeatSweep(throws)
    \/ RoomCleanupSweep
    \/ Tick

SpecCleanup == InitRoom /\ [][NextCleanup]_vars

\* the opponent_disconnected frames among the frames q
Disconnects(q) == {i \in 1..Len(q) : q[i].type = "opponent_disconnected"}

\* C14: the cleanup effects of a connection happen once.  A connection id is
\* registered once and leaves the registry once; every opponent_disconnected
\* frame, every abandon transition and every abandon write belongs to a
\* connection that leaves the registry in that step; a cleanupConnection call for
\* a connection that has left the registry changes nothing.
C14_CleanupOnce ==
    [][/\ \A c \in connections' \ connections : c = nextConnId
       /\ Cardinality(Disconnects(sent')) <= Cardinality(connections \ connections')
       /\ \A g \in GameIds :
             (\/ room[g].status # "abandoned" /\ room'[g].status = "abandoned"
              \/ g \notin pendingWrites /\ g \in pendingWrites') =>
                \E c \in ConnIds : CleanedUp(c) /\ conn[c].gameId = g
       /\ \A c \in ConnIds :
             (ErrorEvent(c) /\ c \notin connections) =>
                /\ sent' = <<>>
                /\ UNCHANGED <<connections, conn, matchmakingQueue, gameRooms, room, games,
                               turns, pendingWrites, matchTasks, submitTasks, now, ms,
                               passed, nextConnId, leftQueue, client, screen>>]_vars

\* C14 witness: connection 1 has been cleaned up and its room is abandoned while
\* the opponent is still connected, so that a further close or error event of
\* connection 1 finds an opponent to notify and a room to abandon
C14_Witness ==
    /\ 1 \notin connections
    /\ conn[1].readyState = "CLOSED"
    /\ 1 \in gameRooms
    /\ room[1].status = "abandoned"
    /\ room[1].player2 = 2
    /\ conn[2].readyState = "OPEN"
    /\ sent = <<>>

\* this step resumes the suspended attemptMatchmaking invocation t with a rejected
\* storage.createGame or storage.updateGame
PairingFailed(t) ==
    \/ MatchCreateGameDone(t, FALSE)
    \/ MatchUpdateGameDone(t, FALSE)

\* connection c waits in the queue or with an invocation suspended on
\* storage.createGame, in the state after the step
WaitsAfter(c) ==
    \/ Includes(matchmakingQueue', c)
    \/ \E u \in BagToSet(matchTasks') : u.pc = "createGame" /\ c \in {u.p1Id, u.p2Id}

\* C15: after a persistence failure during pairing no room of that attempt remains
\* in gameRooms, neither connection of the pair is bound to a room or has a role,
\* and each of the two that is still live is waiting to be paired.
C15_PairingRollback ==
    [][\A t \in BagToSet(matchTasks) :
          PairingFailed(t) =>
             /\ t.gameId \notin gameRooms'
             /\ \A c \in {t.p1Id, t.p2Id} :
                   /\ conn'[c].gameId = NoGame
                   /\ conn'[c].playerRole = NullRole
                   /\ (c \in connections' /\ conn'[c].readyState = "OPEN") =>
                         WaitsAfter(c)]_vars

\* the state in which a failed pairing of t leaves the pair at the front of the
\* queue in the order in which it was popped: p1, then p2, then the entries
\* that were already queued
FrontInOrder(t) ==
    [ResumeMatch(t) EXCEPT !.matchmakingQueue = <<t.p1Id, t.p2Id>> \o @]

\* C16: when a pairing fails, the pair is put back at the front of the queue in
\* its original order: the queue and the suspended invocations after the step are
\* those of a queue that starts with p1, p2, whether or not the pairing loop then
\* goes on from that queue.
C16_RequeueOrder ==
    [][\A t \in BagToSet(matchTasks) :
          PairingFailed(t) =>
             \E S \in {FrontInOrder(t), MatchLoop(FrontInOrder(t))} :
                /\ matchmakingQueue' = S.matchmakingQueue
                /\ matchTasks' = S.matchTasks]_vars

\* C17: after a persistence failure the attemptMatchmaking invocation makes no
\* further pairing attempt: the step that runs its catch ends the invocation, so
\* the suspended invocations afterwards are the former ones without it.
C17_StopAfterFailure ==
    [][\A t \in BagToSet(matchTasks) :
          PairingFailed(t) => matchTasks' = matchTasks (-) SetToBag({t})]_vars

\* this step resumes the suspended handleSubmitTurn invocation t with a rejected
\* storage.createTurn or storage.updateGame
SubmitFailed(t) ==
    \/ SubmitCreateTurnDone(t, FALSE)
    \/ SubmitUpdateGameDone(t, FALSE)

\* C18: when a persistence call of a submit_turn fails, the sender is sent
\* SUBMIT_FAILED and the room's currentRound and currentPlayer are those read when
\* the message was handled and its status is active, so that the same seat can
\* submit again.
C18_SubmitRollback ==
    [][\A t \in BagToSet(submitTasks) :
          (SubmitFailed(t) /\ conn[t.conn].readyState = "OPEN") =>
             /\ sent' = <<[to |-> t.conn] @@ ErrorMsg("SUBMIT_FAILED")>>
             /\ room'[t.room].currentRound = t.tRound
             /\ room'[t.room].currentPlayer = t.tRole
             /\ room'[t.room].status = "active"]_vars

\* the frame of a join_queue message
JoinFrame == [size |-> "ok", json |-> TRUE, parsed |-> [type |-> "join_queue"]]

\* the queue with connection c appended at its tail
Joined(c) == Append(matchmakingQueue, c)

\* C20: join_queue from a connection bound to a room is answered with
\* ALREADY_IN_GAME and from a queued connection with ALREADY_IN_QUEUE, the queue
\* staying as it is; otherwise the id is appended at the tail of the queue and the
\* connection is sent queue_joined with the 1-based index at which it was
\* appended, after which attemptMatchmaking pairs from that queue.
C20_JoinQueue ==
    [][\A c \in ConnIds :
          Message(c, FALSE, JoinFrame) =>
             IF Bound(c)
             THEN /\ sent' = <<[to |-> c] @@ ErrorMsg("ALREADY_IN_GAME")>>
                  /\ matchmakingQueue' = matchmakingQueue
             ELSE IF Includes(matchmakingQueue, c)
             THEN /\ sent' = <<[to |-> c] @@ ErrorMsg("ALREADY_IN_QUEUE")>>
                  /\ matchmakingQueue' = matchmakingQueue
             ELSE /\ Joined(c) = matchmakingQueue \o <<c>>
                  /\ sent' = <<[to |-> c, type |-> "queue_joined",
                                position |-> IndexOf(Joined(c), c, 1)]>>
                  /\ LET S == MatchLoop([Cur EXCEPT !.matchmakingQueue = Joined(c)])
                     IN  /\ matchmakingQueue' = S.matchmakingQueue
                         /\ matchTasks' = S.matchTasks]_vars

\* C20 witness: a connection has joined behind a waiting one, was told position 2
\* and has been popped with it by attemptMatchmaking
C20_Witness ==
    \E c \in ConnIds, t \in BagToSet(matchTasks) :
        /\ sent = <<[to |-> c, type |-> "queue_joined", position |-> 2]>>
        /\ t.pc = "createGame"
        /\ t.p2Id = c
        /\ matchmakingQueue = <<>>

\* ---- pairing to the end ------------------------------------------------------------------
\* The connections of one pair stay connected and send join_queue only; every
\* storage call of attemptMatchmaking settles, and a call that keeps being made
\* succeeds in the end.
NextLive ==
    \/ nextConnId <= PairSize /\ Connect
    \/ \E t \in BagToSet(matchTasks), ok \in BOOLEAN : MatchCreateGameDone(t, ok)
    \/ \E t \in BagToSet(matchTasks), ok \in BOOLEAN : MatchUpdateGameDone(t, ok)
    \/ \E c \in ConnIds :
          Message(c, FALSE, JoinFrame) /\ BagCardinality(matchTasks') <= MaxQueueTasks

SpecLive ==
    /\ Init
    /\ [][NextLive]_vars
    /\ SF_vars(\E t \in BagToSet(matchTasks) : MatchCreateGameDone(t, TRUE))
    /\ SF_vars(\E t \in BagToSet(matchTasks) : MatchUpdateGameDone(t, TRUE))

\* connections a and b are live and wait to be paired with each other: an
\* attemptMatchmaking invocation has popped the two from the queue and is suspended
WaitTogether(a, b) ==
    /\ Live(Cur, a)
    /\ Live(Cur, b)
    /\ \E t \in BagToSet(matchTasks) : t.p1Id # t.p2Id /\ {t.p1Id, t.p2Id} = {a, b}

\* the frames just sent tell a and b that they were matched into the same room
MatchFound(a, b) ==
    \E g \in GameIds :
       \A c \in {a, b} :
          \E i \in 1..Len(sent) :
             sent[i].to = c /\ sent[i].type = "match_found" /\ sent[i].gameId = g

\* storage has handed out every game id of the model
GameIdsExhausted == FreshGameIds(Cur) = {}

\* C19: two live connections that wait to be paired and stay connected are both
\* sent match_found for a common room, as long as storage can still create a game.
C19_EventuallyMatched ==
    WaitTogether(1, 2) ~> (MatchFound(1, 2) \/ GameIdsExhausted)

\* C19 witness: connections 1 and 2 are told of their match in game 2, after the
\* pairing into game 1 failed on storage.updateGame and was retried
C19_Witness ==
    /\ MatchFound(1, 2)
    /\ sent[1].gameId = 2
    /\ 1 \in gameRooms

\* the types of the frames that tell a player about its room
RoomFrameTypes ==
    {"match_found", "game_state", "turn_submitted", "round_complete", "game_complete",
     "opponent_disconnected", "opponent_stroke", "opponent_undo", "opponent_clear"}

\* C21: when storage.createGame resolves for a popped pair, the new room is active
\* with currentRound 1, currentPlayer player1, totalRounds 3 and the
\* earlier-queued connection as player1; while the pairing is still suspended on
\* storage.updateGame neither connection of the pair is sent a frame about a room,
\* and the step that resumes it sends each open connection of the pair match_found
\* with its own seat and then the initial game_state, and nothing before match_found.
C21_MatchAnnounced ==
    [][\A t \in BagToSet(matchTasks) :
          /\ MatchCreateGameDone(t, TRUE) =>
                \E g \in gameRooms' \ gameRooms :
                   /\ room'[g] = NewRoom(room'[g].player1, room'[g].player2)
                   /\ {room'[g].player1, room'[g].player2} = {t.p1Id, t.p2Id}
                   /\ conn[room'[g].player1].joinedAt <= conn[room'[g].player2].joinedAt
          /\ (t.pc = "updateGame" /\ ~MatchUpdateGameDone(t, TRUE)) =>
                \A i \in 1..Len(sent') :
                   ~(sent'[i].to \in {t.p1Id, t.p2Id} /\ sent'[i].type \in RoomFrameTypes)
          /\ MatchUpdateGameDone(t, TRUE) =>
                \A c \in {t.p1Id, t.p2Id} :
                   LET mine == SelectSeq(sent', LAMBDA m : m.to = c)
                   IN  conn[c].readyState = "OPEN" =>
                          /\ Len(mine) >= 2
                          /\ mine[1] = [to |-> c, type |-> "match_found", gameId |-> t.gameId,
                                        playerRole |-> IF c = t.p1Id THEN "player1"
                                                       ELSE "player2",
                                        opponentName |-> IF c = t.p1Id THEN t.p2Id
                                                         ELSE t.p1Id]
                          /\ mine[2] = [to |-> c] @@ InitialState(t.gameId)]_vars

\* ---- drawing in a room ------------------------------------------------------------------
\* The two players of a room send drawing frames and submit turns.
DrawTypes == {"draw_stroke", "draw_undo", "draw_clear"}

DrawFrames == {f \in Frames : f.size = "ok" /\ f.json /\
                  f.parsed.type \in DrawTypes \cup {"submit_turn"}}

NextDraw ==
    \/ \E t \in BagToSet(submitTasks), ok \in BOOLEAN : SubmitCreateTurnDone(t, ok)
    \/ \E t \in BagToSet(submitTasks), ok \in BOOLEAN : SubmitUpdateGameDone(t, ok)
    \/ \E c \in ConnIds, frame \in DrawFrames : Message(c, FALSE, frame)

SpecDraw == InitRoom /\ [][NextDraw]_vars

\* connection c occupies a seat of a registered room and the turn is the other seat's
OutOfTurn(c) ==
    /\ conn[c].gameId \in gameRooms
    /\ conn[c].playerRole # NullRole
    /\ room[conn[c].gameId].currentPlayer # conn[c].playerRole

\* C22: a draw_stroke, draw_undo or draw_clear from a seated connection that does
\* not hold the turn is dropped silently: the step sends no frame at all, neither
\* a relay to the other seat nor an error to the sender.
C22_SilentDrop ==
    [][\A c \in ConnIds, frame \in DrawFrames :
          (/\ frame.parsed.type \in DrawTypes
           /\ OutOfTurn(c)
           /\ Message(c, FALSE, frame)) => sent' = <<>>]_vars

\* ---- the rate limiter ---------------------------------------------------------------------
\* One connection sends ping and join_queue frames while the millisecond clock
\* advances; the limiter's counters decide which frames pass.
MaxRateConns == 1

RateFrames == {f \in Frames : f.size = "ok" /\ f.json /\
                  f.parsed.type \in {"ping", "join_queue"}}

NextRate ==
    \/ nextConnId <= MaxRateConns /\ Connect
    \/ \E c \in ConnIds, frame \in RateFrames :
          \* the frames of a window are pings; its last frames may be join_queue
          /\ frame.parsed.type = "join_queue" =>
                conn[c].messageCount >= MAX_MESSAGES_PER_MINUTE - 1
          /\ Receive(c, frame)
    \/ nextConnId > MaxRateConns /\ RateTick

SpecRate == Init /\ [][NextRate]_vars

\* the frames of connection c that passed the limiter within the last
\* RATE_LIMIT_WINDOW milliseconds
PassedInWindow(c) == passed[c].prev + passed[c].cur

\* C23 (rolling window): at most 300 frames of a connection pass the limiter
\* within any 60 seconds.
C23_RollingWindow ==
    \A c \in ConnIds : PassedInWindow(c) <= MAX_MESSAGES_PER_MINUTE

\* C23 (the 301st frame, and the reset): a frame that arrives when 300 frames
\* were counted in the current window is answered with RATE_LIMITED and changes
\* nothing but the counter; the first frame after the window has elapsed passes.
C23_LimitAndReset ==
    [][\A c \in ConnIds, frame \in RateFrames :
          Receive(c, frame) =>
             /\ (/\ DateNow(Cur) <= conn[c].rateLimitReset
                 /\ conn[c].messageCount >= MAX_MESSAGES_PER_MINUTE) =>
                   /\ sent' = <<[to |-> c] @@ ErrorMsg("RATE_LIMITED")>>
                   /\ passed' = passed
                   /\ UNCHANGED <<connections, matchmakingQueue, gameRooms, room, games,
                                  turns, pendingWrites, matchTasks, submitTasks>>
             /\ DateNow(Cur) > conn[c].rateLimitReset =>
                   /\ passed'[c].cur = passed[c].cur + 1
                   /\ conn'[c].messageCount = 1
                   /\ \A i \in 1..Len(sent') : sent'[i].type # "error"
                                                 \/ sent'[i].code # "RATE_LIMITED"]_vars

\* C23: for each connection, in any rolling 60-second window at most 300 frames
\* pass the rate limiter; the 301st frame within the window is answered with
\* RATE_LIMITED and discarded, and once the window has elapsed the counter is reset
\* so that the next frame is accepted.
C23_RateLimit == []C23_RollingWindow /\ C23_LimitAndReset

\* the ping control frame written to the socket of connection c
PingTo(c) == [to |-> c, type |-> "ping"]

NextTimeout ==
    \/ nextConnId <= PairSize /\ Connect
    \/ \E c \in ConnIds : SocketClose(c)
    \/ \E c \in ConnIds : CloseEvent(c)
    \/ \E t \in BagToSet(matchTasks), ok \in BOOLEAN :
          (ok => FreshGameIds(Cur) = GameIds) /\ MatchCreateGameDone(t, ok)
    \/ \E t \in BagToSet(matchTasks), ok \in BOOLEAN : MatchUpdateGameDone(t, ok)
    \/ \E c \in ConnIds, frame \in FifoFrames :
          Message(c, FALSE, frame) /\ BagCardinality(matchTasks') <= MaxQueueTasks
    \/ MatchmakingSweep
    \/ nextConnId > PairSize /\ ClockStep(MaxTimeoutSteps)

SpecTimeout == Init /\ [][NextTimeout]_vars

TimeoutTo(c) == [to |-> c] @@ ErrorMsg("MATCHMAKING_TIMEOUT")

\* milliseconds since the join_queue of connection c
QueuedFor(c) == DateNow(Cur) - conn[c].joinedAt

\* C25: a matchmaking sweep removes every live queue entry whose join_queue is
\* more than 120 s old and sends it MATCHMAKING_TIMEOUT, and leaves every other
\* live entry in the queue; MATCHMAKING_TIMEOUT is sent by the sweep only, to
\* entries of that age; joinedAt is the time of the connection's last accepted
\* join_queue (of its connection, before the first).
C25_QueueTimeout ==
    [][/\ MatchmakingSweep =>
             \A i \in 1..Len(matchmakingQueue) :
                LET c == matchmakingQueue[i]
                IN  Live(Cur, c) =>
                       IF QueuedFor(c) > MATCHMAKING_TIMEOUT
                       THEN /\ ~Includes(matchmakingQueue', c)
                            /\ \E k \in 1..Len(sent') : sent'[k] = TimeoutTo(c)
                       ELSE /\ Includes(matchmakingQueue', c)
                            /\ \A k \in 1..Len(sent') : sent'[k] # TimeoutTo(c)
       /\ \A k \in 1..Len(sent') :
             (sent'[k].type = "error" /\ sent'[k].code = "MATCHMAKING_TIMEOUT") =>
                /\ MatchmakingSweep
                /\ Includes(matchmakingQueue, sent'[k].to)
                /\ QueuedFor(sent'[k].to) > MATCHMAKING_TIMEOUT
       /\ \A c \in ConnIds :
             conn'[c].joinedAt # conn[c].joinedAt =>
                /\ conn'[c].joinedAt = DateNow(Cur)
                /\ \/ Connect /\ c = nextConnId
                   \/ /\ Message(c, FALSE, JoinFrame)
                      /\ \E k \in 1..Len(sent') :
                            sent'[k].to = c /\ sent'[k].type = "queue_joined"]_vars

\* C25 witness: connection 1 has just been evicted by a sweep 160 s after its
\* join_queue; it was popped with connection 2, whose socket closed before
\* storage.createGame failed, and was put back into the queue alone
C25_Witness ==
    /\ sent = <<TimeoutTo(1)>>
    /\ matchmakingQueue = <<>>
    /\ QueuedFor(1) = 4 * RateStepMs
    /\ conn[2].joinedAt > conn[1].joinedAt
    /\ conn[2].readyState = "CLOSED"
    /\ matchTasks = EmptyBag
    /\ gameRooms = {}

\* ---- the end of a room -------------------------------------------------------------------
\* The two players of a room play it, sending a submit_turn when no other is being
\* handled, and lose their sockets, while the clock advances and the room cleanup
\* timer keeps running.
NextRetire ==
    \/ \E c \in ConnIds : SocketClose(c)
    \/ \E c \in ConnIds : CloseEvent(c)
    \/ \E t \in BagToSet(submitTasks), ok \in BOOLEAN : SubmitCreateTurnDone(t, ok)
    \/ \E t \in BagToSet(submitTasks), ok \in BOOLEAN : SubmitUpdateGameDone(t, ok)
    \/ \E c \in ConnIds : submitTasks = EmptyBag /\ Message(c, FALSE, SubmitFrame)
    \/ RoomCleanupSweep
    \/ Tick

SpecRetire ==
    /\ InitRoom
    /\ [][NextRetire]_vars
    /\ WF_vars(RoomCleanupSweep)
    /\ WF_vars(Tick)

\* room g is registered and no longer active
Ended(g) == g \in gameRooms /\ room[g].status \in Terminal

\* milliseconds since room g left status active
EndedFor(g) == DateNow(Cur) - room[g].completedAt

\* the model's clock has stopped
ClockStopped == now > MaxTime

\* C26 (retention): a room that is removed from gameRooms while a seat of it is
\* still occupied has ended more than 120 s before.
C26_Retention ==
    [][\A g \in gameRooms \ gameRooms' :
          (room'[g].player1 # NoConn \/ room'[g].player2 # NoConn) =>
             /\ Ended(g)
             /\ EndedFor(g) > ROOM_CLEANUP_DELAY]_vars

\* C26 (removal): a room that has ended is removed from gameRooms, unless the
\* model's clock stops before the room's 120 s have passed.
C26_Removal ==
    Ended(1) ~> (1 \notin gameRooms \/ (ClockStopped /\ Ended(1) /\
                                          EndedFor(1) <= ROOM_CLEANUP_DELAY))

\* C26: every room that reaches status completed or abandoned is eventually removed
\* from gameRooms, and while it still has an occupied seat it is not removed before
\* more than 120 s have passed since it left status active.
C26_RoomRetired == C26_Retention /\ C26_Removal

\* C26 witness: the cleanup timer has removed room 1, completed one tick (150 s)
\* before, and has unbound its two players, who are still connected
C26_Witness ==
    /\ 1 \notin gameRooms
    /\ room[1].status = "completed"
    /\ room[1].player1 = 1
    /\ room[1].player2 = 2
    /\ conn[1].gameId = NoGame
    /\ conn[2].gameId = NoGame
    /\ {1, 2} \subseteq connections

\* ---- persistence of an abandoned game ----------------------------------------------------
\* Connections are paired and disconnect; every storage call succeeds, the calls
\* in flight completing in any order.
NextPersist ==
    \/ nextConnId <= PairSize /\ Connect
    \/ \E c \in ConnIds : SocketClose(c)
    \/ \E c \in ConnIds : CloseEvent(c)
    \/ \E t \in BagToSet(matchTasks) : MatchCreateGameDone(t, TRUE)
    \/ \E t \in BagToSet(matchTasks) : MatchUpdateGameDone(t, TRUE)
    \/ \E g \in GameIds : AbandonWriteDone(g, TRUE)
    \/ \E c \in ConnIds : Message(c, FALSE, JoinFrame)

SpecPersist == Init /\ [][NextPersist]_vars

\* no storage call for game g is in flight
Settled(g) ==
    /\ g \notin pendingWrites
    /\ \A t \in BagToSet(matchTasks) : t.gameId # g
    /\ \A t \in BagToSet(submitTasks) : t.tGameId # g

\* C27: once a player has disconnected from a game in progress (the room is
\* abandoned) and every storage call issued for the game has completed, all of
\* them successfully, the persisted status of the game is abandoned.
C27_AbandonPersisted ==
    \A g \in GameIds :
        (room[g].status = "abandoned" /\ Settled(g)) => games[g].status = "abandoned"

\* ---- the checks of an inbound frame ------------------------------------------------------
\* The two connections of a pair send frames of every kind, sound or failing one
\* or several of the checks, and are paired.
CheckedValues ==
    {[type |-> t] : t \in {"join_queue", "draw_undo"}}
    \cup {[type |-> "draw_stroke", stroke |-> k] :
             k \in {s \in SampleStrokes : ~StrokeSchema(s)}}

CheckedFrames ==
    [size : {"throws", "too_large", "ok"}, json : BOOLEAN, parsed : CheckedValues]

NextChecks ==
    \/ nextConnId <= PairSize /\ Connect
    \/ \E t \in BagToSet(matchTasks), ok \in BOOLEAN :
          (ok => FreshGameIds(Cur) = GameIds) /\ MatchCreateGameDone(t, ok)
    \/ \E t \in BagToSet(matchTasks) : MatchUpdateGameDone(t, TRUE)
    \/ \E c \in ConnIds, frame \in CheckedFrames, limited \in BOOLEAN :
          Inbound(c, limited, frame) /\ BagCardinality(matchTasks') <= MaxQueueTasks

SpecChecks == Init /\ [][NextChecks]_vars

\* the error codes of the checks, in the order in which the claim lists them
CheckCodes ==
    <<"RATE_LIMITED", "INVALID_ENCODING", "MESSAGE_TOO_LARGE", "INVALID_JSON",
      "VALIDATION_FAILED">>

\* the frame fails the check that answers with CheckCodes[i]
FailsCheck(i, limited, frame) ==
    CASE i = 1 -> limited
      [] i = 2 -> frame.size = "throws"
      [] i = 3 -> frame.size = "too_large"
      [] i = 4 -> ~frame.json
      [] OTHER -> ~wsClientMessageSchema(frame.parsed)

\* the binding of every connection to a room and a seat
Bindings == [c \in ConnIds |-> <<conn[c].gameId, conn[c].playerRole>>]

\* C28: an inbound frame is checked in the order rate limit, encoding, size, JSON
\* parse, schema; when the first check it fails is the i-th, the sender is sent
\* one error frame with the i-th code and nothing else is sent, and the queue, the
\* rooms and the bindings of all connections stay as they are.
C28_CheckOrder ==
    [][\A c \in ConnIds, frame \in CheckedFrames, limited \in BOOLEAN :
          \A i \in 1..Len(CheckCodes) :
             (/\ FailsCheck(i, limited, frame)
              /\ \A k \in 1..(i - 1) : ~FailsCheck(k, limited, frame)
              /\ c \in connections
              /\ Inbound(c, limited, frame)) =>
                   /\ sent' = <<[to |-> c] @@ ErrorMsg(CheckCodes[i])>>
                   /\ matchmakingQueue' = matchmakingQueue
                   /\ gameRooms' = gameRooms
                   /\ room' = room
                   /\ Bindings' = Bindings
                   /\ matchTasks' = matchTasks
                   /\ submitTasks' = submitTasks]_vars

\* the part of C28 that concerns handleMessage alone: for a frame that the
\* "message" handler is called with, the first failing check sends its code to
\* the sender and nothing else changes
C28_HandlerOrder ==
    [][\A c \in ConnIds, frame \in CheckedFrames, limited \in BOOLEAN :
          \A i \in 1..Len(CheckCodes) :
             (/\ FailsCheck(i, limited, frame)
              /\ \A k \in 1..(i - 1) : ~FailsCheck(k, limited, frame)
              /\ c \in connections
              /\ Message(c, limited, frame)) =>
                   /\ sent' = <<[to |-> c] @@ ErrorMsg(CheckCodes[i])>>
                   /\ matchmakingQueue' = matchmakingQueue
                   /\ gameRooms' = gameRooms
                   /\ room' = room
                   /\ Bindings' = Bindings
                   /\ matchTasks' = matchTasks
                   /\ submitTasks' = submitTasks]_vars


(***************************************************************************)
(* The client: WebSocketProvider (contexts/WebSocketContext.tsx).          *)
(* The component is a record C; every callback is an operator from C to    *)
(* the component after the callback.  matchStatus is the value the last    *)
(* render returned from useState, which the render also copies into        *)
(* matchStatusRef.current; pendingStatus is a setMatchStatus() the next    *)
(* render will apply.  sock[k] is the readyState of the k-th WebSocket the *)
(* component created; each keeps its handlers whether or not wsRef still   *)
(* points at it.                                                           *)
(***************************************************************************)
RECONNECT_DELAYS == <<1000, 2000, 4000, 8000, 16000>>

\* frame types the server sends
ServerTypes ==
    {"pong", "queue_joined", "queue_left", "match_found", "game_state",
     "turn_submitted", "round_complete", "game_complete", "opponent_stroke",
     "opponent_clear", "opponent_disconnected", "error_MATCHMAKING_TIMEOUT",
     "error"}

Min(a, b) == IF a < b THEN a ELSE b

ClientStart(C) == [C EXCEPT !.out = <<>>]

clearTimers(C) ==
    [C EXCEPT !.reconnectTimer = 0, !.timerPending = FALSE, !.pingTimer = FALSE]

\* sendRaw(msg): sends on the socket wsRef points at, if it is open
sendRaw(C, type) ==
    IF C.wsRef # NoSock /\ C.sock[C.wsRef] = "OPEN"
    THEN [C EXCEPT !.out = Append(@, [sock |-> C.wsRef, type |-> type])]
    ELSE C

setMatchStatus(C, status) == [C EXCEPT !.pendingStatus = status]

\* handleMessage(data) of the client, for a frame that parses
clientHandleMessage(C, type) ==
    CASE type = "queue_joined"              -> setMatchStatus(C, "searching")
      [] type = "queue_left"                -> setMatchStatus(C, "idle")
      [] type = "match_found"               -> setMatchStatus(C, "matched")
      [] type = "game_state"                -> setMatchStatus(C, "playing")
      [] type = "game_complete"             -> setMatchStatus(C, "completed")
      [] type = "opponent_disconnected"     -> setMatchStatus(C, "opponent_disconnected")
      [] type = "error_MATCHMAKING_TIMEOUT" -> setMatchStatus(C, "idle")
      [] OTHER                              -> C

\* connect(): s is the WebSocket the constructor returns, urlOk is FALSE when
\* getWsUrl() or the constructor throws
connect(C, s, urlOk) ==
    IF C.wsRef # NoSock /\ C.sock[C.wsRef] \in {"OPEN", "CONNECTING"}
    THEN C
    ELSE LET A == [clearTimers(C) EXCEPT !.intentionalClose = FALSE,
                                         !.shouldReconnect = TRUE,
                                         !.connectionStatus = "connecting"]
         IN  IF urlOk
             THEN [A EXCEPT !.sock[s] = "CONNECTING", !.wsRef = s]
             ELSE [A EXCEPT !.connectionStatus = "disconnected"]

onopenNoReset(C, s) ==
    LET A == [C EXCEPT !.sock[s] = "OPEN"]
    IN  IF ~C.mounted
        THEN A
        ELSE [A EXCEPT !.connectionStatus = "connected", !.pingTimer = TRUE]

\* ws.onopen of socket s
onopen(C, s) ==
    LET A == [C EXCEPT !.sock[s] = "OPEN"]
    IN  IF ~C.mounted
        THEN A
        ELSE [A EXCEPT !.connectionStatus = "connected", !.reconnectAttempt = 0,
                       !.pingTimer = TRUE]

\* the test of ws.onclose for scheduling a reconnect
ShouldReconnect(C) ==
    /\ ~C.intentionalClose
    /\ C.shouldReconnect
    /\ C.matchStatus # "completed"

ReconnectDelay(attempt) ==
    RECONNECT_DELAYS[Min(attempt, Len(RECONNECT_DELAYS) - 1) + 1]

\* ws.onclose of socket s
onclose(C, s) ==
    LET A == [clearTimers(C) EXCEPT !.sock[s] = "CLOSED", !.wsRef = NoSock]
    IN  IF ~C.mounted
        THEN A
        ELSE LET B == [A EXCEPT !.connectionStatus = "disconnected"]
             IN  IF ShouldReconnect(B)
                 THEN [B EXCEPT !.reconnectTimer = ReconnectDelay(B.reconnectAttempt),
                                !.timerPending = TRUE,
                                !.reconnectAttempt = @ + 1]
                 ELSE B

\* wsRef.current.close(); wsRef.current = null
closeSocket(C) ==
    IF C.wsRef = NoSock
    THEN C
    ELSE [C EXCEPT !.sock[C.wsRef] = IF @ \in {"OPEN", "CONNECTING"} THEN "CLOSING" ELSE @,
                   !.wsRef = NoSock]

disconnect(C) ==
    LET A == clearTimers([C EXCEPT !.intentionalClose = TRUE, !.shouldReconnect = FALSE])
    IN  setMatchStatus([closeSocket(A) EXCEPT !.connectionStatus = "disconnected"], "idle")

resetState(C) == setMatchStatus(C, "idle")

\* the cleanup of the mount effect
unmount(C) ==
    closeSocket(clearTimers([C EXCEPT !.mounted = FALSE, !.intentionalClose = TRUE,
                                      !.shouldReconnect = FALSE]))

joinQueue(C) ==
    IF \/ C.matchStatus # "idle"
       \/ C.wsRef = NoSock
       \/ C.sock[C.wsRef] # "OPEN"
    THEN C
    ELSE sendRaw(C, "join_queue")

leaveQueue(C) == sendRaw(C, "leave_queue")

submitTurn(C) ==
    IF C.matchStatus # "playing" THEN C ELSE sendRaw(C, "submit_turn")

sendStrokeUnguarded(C) == sendRaw(C, "draw_stroke")

sendStroke(C) ==
    IF C.matchStatus # "playing" THEN C ELSE sendRaw(C, "draw_stroke")

sendClear(C) ==
    IF C.matchStatus # "playing" THEN C ELSE sendRaw(C, "draw_clear")

\* the WebSocket object the constructor returns; an object that has closed has
\* no further events, and its name is used again
Dead == {"NONE", "CLOSED"}
FreeSock(C) ==
    IF \E k \in SockIds : C.sock[k] \in Dead
    THEN CHOOSE k \in SockIds : C.sock[k] \in Dead /\ \A j \in 1..(k - 1) : C.sock[j] \notin Dead
    ELSE NoSock

\* a step of the client; the server is not involved
ClientCommit(C) ==
    /\ client' = C
    /\ screen' = screen
    /\ UNCHANGED serverVars

\* the component calls connect()
ClientConnect(s, urlOk) ==
    /\ client.mounted
    /\ s = FreeSock(client)
    /\ ClientCommit(connect(ClientStart(client), s, urlOk))

\* the reconnect timer fires and runs connect()
ReconnectFire(s, urlOk) ==
    /\ client.timerPending
    /\ s = FreeSock(client)
    /\ ClientCommit(connect([ClientStart(client) EXCEPT !.timerPending = FALSE], s, urlOk))

\* socket s connects
SocketOpened(s) ==
    /\ client.sock[s] = "CONNECTING"
    /\ ClientCommit(onopen(ClientStart(client), s))

\* socket s closes: its connection attempt failed, the connection was lost,
\* or the close handshake the client started has finished
SocketClosed(s) ==
    /\ client.sock[s] \in {"CONNECTING", "OPEN", "CLOSING"}
    /\ client.reconnectAttempt < MaxAttempts
    /\ ClientCommit(onclose(ClientStart(client), s))

\* the server's frame arrives on socket s
ServerFrame(s, type) ==
    /\ client.sock[s] = "OPEN"
    /\ ClientCommit(clientHandleMessage(ClientStart(client), type))

\* React renders the component with the state update it had queued
Render ==
    /\ client.mounted
    /\ client.pendingStatus # "none"
    /\ ClientCommit([ClientStart(client) EXCEPT !.matchStatus = client.pendingStatus,
                                                !.pendingStatus = "none"])

\* the ping interval fires
PingFire ==
    /\ client.pingTimer
    /\ ClientCommit(sendRaw(ClientStart(client), "ping"))

ClientDisconnect == client.mounted /\ ClientCommit(disconnect(ClientStart(client)))
ClientResetState == client.mounted /\ ClientCommit(resetState(ClientStart(client)))
ClientUnmount == client.mounted /\ ClientCommit(unmount(ClientStart(client)))
CallJoinQueue == client.mounted /\ ClientCommit(joinQueue(ClientStart(client)))
CallLeaveQueue == client.mounted /\ ClientCommit(leaveQueue(ClientStart(client)))
CallSubmitTurn == client.mounted /\ ClientCommit(submitTurn(ClientStart(client)))
CallSendStroke == client.mounted /\ ClientCommit(sendStroke(ClientStart(client)))
CallSendClear == client.mounted /\ ClientCommit(sendClear(ClientStart(client)))

NextClient ==
    \/ \E s \in SockIds, urlOk \in BOOLEAN : ClientConnect(s, urlOk)
    \/ \E s \in SockIds, urlOk \in BOOLEAN : ReconnectFire(s, urlOk)
    \/ \E s \in SockIds : SocketOpened(s)
    \/ \E s \in SockIds : SocketClosed(s)
    \/ \E s \in SockIds, type \in ServerTypes : ServerFrame(s, type)
    \/ Render
    \/ PingFire
    \/ ClientDisconnect
    \/ ClientResetState
    \/ ClientUnmount
    \/ CallJoinQueue
    \/ CallLeaveQueue
    \/ CallSubmitTurn
    \/ CallSendStroke
    \/ CallSendClear

SpecClient == Init /\ [][NextClient]_vars

\* C29: the client sends draw_stroke, draw_clear and submit_turn only while its
\* matchStatus is "playing", and join_queue only while its matchStatus is "idle"
\* and its socket is open; in every other state these calls send nothing.
GuardedTypes == {"draw_stroke", "draw_clear", "submit_turn"}

C29_SendGuards ==
    [][/\ \A i \in 1..Len(client'.out) :
            /\ client'.out[i].type \in GuardedTypes => client.matchStatus = "playing"
            /\ client'.out[i].type = "join_queue" =>
                  /\ client.matchStatus = "idle"
                  /\ client.wsRef # NoSock
                  /\ client.sock[client.wsRef] = "OPEN"
       /\ (client.matchStatus # "playing"
             /\ (CallSendStroke \/ CallSendClear \/ CallSubmitTurn)) => client'.out = <<>>
       /\ ((client.matchStatus # "idle" \/ client.wsRef = NoSock
              \/ client.sock[client.wsRef] # "OPEN")
             /\ CallJoinQueue) => client'.out = <<>>]_vars

\* a client that is playing has sent a stroke on its open socket
C29_Witness ==
    /\ client.matchStatus = "playing"
    /\ client.pendingStatus = "none"
    /\ client.wsRef # NoSock
    /\ client.sock[client.wsRef] = "OPEN"
    /\ client.out = <<[sock |-> client.wsRef, type |-> "draw_stroke"]>>


\* the delays of the claim, in milliseconds, and the entry for counter value k
ClaimedDelays == <<1000, 2000, 4000, 8000, 16000>>
ClaimedDelay(k) == ClaimedDelays[IF k < 4 THEN k + 1 ELSE 5]

\* a socket closes that the client did not ask to close
UnintendedClose(s) ==
    /\ SocketClosed(s)
    /\ ~client.intentionalClose

\* the close handler has scheduled exactly one reconnect, with the delay of
\* counter value k, and has counted it
ScheduledOne ==
    /\ client'.timerPending
    /\ client'.reconnectTimer = ClaimedDelay(client.reconnectAttempt)
    /\ client'.reconnectAttempt = client.reconnectAttempt + 1

\* the counter returns to 0 on every open, and moves in no other step than an
\* open or an unintended close
CounterRule ==
    /\ \A s \in SockIds : SocketOpened(s) /\ client.mounted => client'.reconnectAttempt = 0
    /\ client'.reconnectAttempt # client.reconnectAttempt =>
          \E s \in SockIds : SocketOpened(s) \/ UnintendedClose(s)

BothSeated(g) ==
    /\ room[g].player1 # NoConn
    /\ room[g].player2 # NoConn
    /\ IsOpen(Cur, room[g].player1)
    /\ IsOpen(Cur, room[g].player2)

\* positions of the frames of this step that are sent to c and have the type
SentTo(c, type) ==
    {i \in 1..Len(sent') : sent'[i].to = c /\ sent'[i].type = type}

\* C31: an accepted submit_turn of player1 sends the other seat turn_submitted with
\* the submitting seat and the round of the submission, and the game_state that
\* follows goes to both seats with currentPlayer = player2; an accepted
\* submit_turn of player2 in a round that is not the last sends both seats
\* round_complete{round, nextRound = round + 1} and then game_state with
\* currentRound = nextRound and currentPlayer = player1.
C31_TurnFrames ==
    [][\A t \in BagToSet(submitTasks) :
          BothSeated(t.room) =>
             /\ (SubmitCreateTurnDone(t, TRUE) /\ t.tRole = "player1") =>
                   \E i \in SentTo(room[t.room].player2, "turn_submitted") :
                      /\ sent'[i].playerRole = "player1"
                      /\ sent'[i].round = t.tRound
             /\ (SubmitUpdateGameDone(t, TRUE) /\ t.tRole = "player1") =>
                   \A c \in {room[t.room].player1, room[t.room].player2} :
                      /\ SentTo(c, "round_complete") = {}
                      /\ SentTo(c, "game_complete") = {}
                      /\ \E i \in SentTo(c, "game_state") :
                            sent'[i].currentPlayer = "player2"
             /\ (/\ SubmitUpdateGameDone(t, TRUE)
                 /\ t.tRole = "player2"
                 /\ t.tRound < room[t.room].totalRounds) =>
                   \A c \in {room[t.room].player1, room[t.room].player2} :
                      \E i \in SentTo(c, "round_complete"), j \in SentTo(c, "game_state") :
                         /\ i < j
                         /\ sent'[i].round = t.tRound
                         /\ sent'[i].nextRound = t.tRound + 1
                         /\ sent'[j].currentRound = t.tRound + 1
                         /\ sent'[j].currentPlayer = "player1"]_vars


\* connection c occupies the seat of a registered room that holds the turn
HoldsTurn(c) ==
    /\ conn[c].gameId \in gameRooms
    /\ conn[c].playerRole # NullRole
    /\ room[conn[c].gameId].currentPlayer = conn[c].playerRole

\* the connection in the other seat of c's room
Opponent(c) == Seat(room[conn[c].gameId], OtherRole(conn[c].playerRole))

\* the relay of a drawing event
RelayOf(msg) ==
    CASE msg.type = "draw_stroke" -> [type |-> "opponent_stroke", stroke |-> msg.stroke]
      [] msg.type = "draw_undo"   -> [type |-> "opponent_undo"]
      [] msg.type = "draw_clear"  -> [type |-> "opponent_clear"]

RelayTypes == {"opponent_stroke", "opponent_undo", "opponent_clear"}

\* the payload of a drawing event passes the checks made on it: the schema's and
\* the path and colour expressions for a stroke, none for undo and clear
PayloadOk(msg) ==
    msg.type = "draw_stroke" =>
       /\ StrokeSchema(msg.stroke)
       /\ pathRegex(msg.stroke.path)
       /\ colorRegex(msg.stroke.color)

\* C32: handling draw_stroke, draw_undo or draw_clear changes no room, seat, queue
\* or binding; an event of the turn holder whose payload passes the checks sends
\* exactly one frame, the matching opponent_* relay, to the other seat of the
\* room; a draw_stroke that fails the path or colour check is never relayed.
C32_DrawRelay ==
    [][\A c \in ConnIds, frame \in DrawFrames :
          (frame.parsed.type \in DrawTypes /\ Message(c, FALSE, frame)) =>
             /\ UNCHANGED <<gameRooms, room, matchmakingQueue, connections>>
             /\ \A k \in ConnIds : /\ conn'[k].gameId = conn[k].gameId
                                   /\ conn'[k].playerRole = conn[k].playerRole
             /\ (/\ HoldsTurn(c)
                 /\ PayloadOk(frame.parsed)
                 /\ Opponent(c) # NoConn
                 /\ IsOpen(Cur, Opponent(c))) =>
                   sent' = <<[to |-> Opponent(c)] @@ RelayOf(frame.parsed)>>
             /\ (/\ frame.parsed.type = "draw_stroke"
                 /\ ~(pathRegex(frame.parsed.stroke.path)
                        /\ colorRegex(frame.parsed.stroke.color))) =>
                   \A i \in 1..Len(sent') : sent'[i].type \notin RelayTypes]_vars


(***************************************************************************)
(* The game screen (app/game.tsx) of the client.  Its callbacks act on the *)
(* pair P = [c |-> the WebSocketProvider, g |-> the screen].               *)
(***************************************************************************)
Max(a, b) == IF a > b THEN a ELSE b

ScreenStart == [c |-> ClientStart(client), g |-> [screen EXCEPT !.passed = 0]]

ScreenCommit(P) ==
    /\ client' = P.c
    /\ screen' = P.g
    /\ UNCHANGED serverVars

clearSubmitRetry(P) == [P EXCEPT !.g.retryLive = FALSE, !.g.pendingSubmit = 0]

\* const sent = ws.submitTurn(strokes): submitTurn of the provider has no return
\* statement, so sent is undefined
SubmitResult == FALSE

callSubmit(P, strokes) == [P EXCEPT !.c = submitTurn(P.c), !.g.passed = strokes]

\* submitRetryRef.current = setTimeout(..., sent ? slow : 1000); a timeout the ref
\* still held is not cleared and keeps running
armRetry(P, slow) ==
    [P EXCEPT !.g.leaked = @ + (IF P.g.retryLive THEN 1 ELSE 0),
              !.g.retryLive = TRUE,
              !.g.retryDelay = IF SubmitResult THEN slow ELSE 1000]

retrySubmit(P) ==
    IF ~P.g.mounted \/ P.g.navigated
    THEN clearSubmitRetry(P)
    ELSE IF P.g.pendingSubmit = 0
    THEN P
    ELSE armRetry(callSubmit(P, P.g.pendingSubmit), 3000)

\* the callback of a retry timeout
retryCallback(P) ==
    IF P.g.mounted /\ P.g.pendingSubmit # 0 THEN retrySubmit(P) ELSE P

\* handleSubmitTurn of the screen: the n-th turn it submits
screenHandleSubmitTurn(P) ==
    IF P.g.seenSubmitting \/ ~P.g.seenMyTurn
    THEN P
    ELSE LET n == P.g.turnNo + 1
             A == [P EXCEPT !.g.isSubmitting = TRUE, !.g.turnNo = n,
                            !.g.pendingSubmit = n]
         IN  armRetry(callSubmit(A, n), 5000)

onGameStateKeep(P) == [P EXCEPT !.g.isSubmitting = FALSE]

onGameState(P) == [clearSubmitRetry(P) EXCEPT !.g.isSubmitting = FALSE]

onGameComplete(P) ==
    IF ~P.g.navigated
    THEN clearSubmitRetry([P EXCEPT !.g.navigated = TRUE])
    ELSE P

onOpponentDisconnected(P) ==
    IF P.g.navigated
    THEN P
    ELSE clearSubmitRetry([P EXCEPT !.g.navigated = TRUE])

onError(P, code) ==
    IF code \in {"NOT_YOUR_TURN", "GAME_COMPLETED"}
    THEN [clearSubmitRetry(P) EXCEPT !.g.isSubmitting = FALSE]
    ELSE P

\* the callbacks the screen registered with ws.setCallbacks, by frame type
screenCallbacks(P, type) ==
    CASE type = "game_state"            -> onGameState(P)
      [] type = "game_complete"         -> onGameComplete(P)
      [] type = "opponent_disconnected" -> onOpponentDisconnected(P)
      [] type = "error_NOT_YOUR_TURN"   -> onError(P, "NOT_YOUR_TURN")
      [] type = "error_GAME_COMPLETED"  -> onError(P, "GAME_COMPLETED")
      [] type = "error"                 -> onError(P, "SUBMIT_FAILED")
      [] OTHER                          -> P

\* the frames of a game: those that end the resending and those that do not
GameTypes ==
    {"game_state", "game_complete", "opponent_disconnected", "error_NOT_YOUR_TURN",
     "error_GAME_COMPLETED", "error", "turn_submitted"}

\* the frames that end the resending of a pending turn
StopTypes ==
    {"game_state", "game_complete", "opponent_disconnected", "error_NOT_YOUR_TURN",
     "error_GAME_COMPLETED"}

\* a frame of the server arrives on socket s; mine: the currentPlayer of a
\* game_state is the role of this client
GameFrame(s, type, mine) ==
    /\ client.sock[s] = "OPEN"
    /\ LET A == [ScreenStart EXCEPT !.c = clientHandleMessage(@, type)]
           B == IF type = "game_state" THEN [A EXCEPT !.g.myTurn = mine] ELSE A
           D == IF screen.mounted THEN screenCallbacks(B, type) ELSE B
       IN  ScreenCommit([D EXCEPT !.g.settled =
                            IF type \in StopTypes /\ screen.mounted
                            THEN Max(@, screen.pendingSubmit) ELSE @])

\* the router shows the game screen: a new component with new refs; the timeouts
\* of an earlier one see its mountedRef and do nothing
ScreenMount ==
    /\ ~screen.mounted
    /\ client.mounted
    /\ client.matchStatus \in {"matched", "playing"}
    /\ ScreenCommit([ScreenStart EXCEPT
          !.g = [NewScreen EXCEPT !.mounted = TRUE, !.myTurn = screen.myTurn,
                                  !.seenMyTurn = screen.myTurn,
                                  !.turnNo = screen.turnNo,
                                  !.settled = screen.settled]])

\* the cleanup of the screen's mount effect
screenUnmount(P) ==
    [clearSubmitRetry([P EXCEPT !.g.mounted = FALSE]) EXCEPT
        !.g.leaked = 0, !.g.settled = Max(@, P.g.pendingSubmit)]

ScreenUnmount ==
    /\ screen.mounted
    /\ ScreenCommit(screenUnmount(ScreenStart))

\* handleBack, doLeave: the player leaves the game
ScreenBack ==
    /\ screen.mounted
    /\ client.mounted
    /\ LET A == clearSubmitRetry(ScreenStart)
       IN  ScreenCommit(screenUnmount([A EXCEPT !.c = disconnect(@),
                                                !.g.settled = Max(@, screen.pendingSubmit)]))

\* React renders the screen: its callbacks now close over the current state
ScreenRender ==
    /\ screen.mounted
    /\ \/ screen.seenSubmitting # screen.isSubmitting
       \/ screen.seenMyTurn # screen.myTurn
    /\ ScreenCommit([ScreenStart EXCEPT !.g.seenSubmitting = screen.isSubmitting,
                                        !.g.seenMyTurn = screen.myTurn])

\* the submit button is pressed or the turn timer runs out
ScreenSubmit ==
    /\ screen.mounted
    /\ screen.turnNo < MaxTurns
    /\ LET P == screenHandleSubmitTurn(ScreenStart)
       IN  P.g.leaked <= MaxLeaked /\ ScreenCommit(P)

\* the timeout submitRetryRef holds fires
RetryFire ==
    /\ screen.retryLive
    /\ LET P == retryCallback([ScreenStart EXCEPT !.g.retryLive = FALSE])
       IN  P.g.leaked <= MaxLeaked /\ ScreenCommit(P)

\* a timeout that submitRetryRef no longer holds fires
LeakedFire ==
    /\ screen.leaked > 0
    /\ LET P == retryCallback([ScreenStart EXCEPT !.g.leaked = @ - 1])
       IN  P.g.leaked <= MaxLeaked /\ ScreenCommit(P)

\* no socket of the client is connecting, open or closing
NoSocketAlive == \A k \in SockIds : client.sock[k] \in Dead

\* the client connects when it has no socket, and its socket drops at most once
\* before it is opened again
NextScreen ==
    \/ \E s \in SockIds : NoSocketAlive /\ ClientConnect(s, TRUE)
    \/ \E s \in SockIds : NoSocketAlive /\ ReconnectFire(s, TRUE)
    \/ \E s \in SockIds : SocketOpened(s)
    \/ \E s \in SockIds : client.reconnectAttempt = 0 /\ SocketClosed(s)
    \/ Render
    \/ \E s \in SockIds, type \in GameTypes, mine \in BOOLEAN : GameFrame(s, type, mine)
    \/ ScreenMount
    \/ ScreenUnmount
    \/ ScreenBack
    \/ ScreenRender
    \/ ScreenSubmit
    \/ RetryFire
    \/ LeakedFire

SpecScreen == Init /\ [][NextScreen]_vars

\* the step sends a submit_turn frame
SendsSubmit == \E i \in 1..Len(client'.out) : client'.out[i].type = "submit_turn"

\* C33 (the pending copy has a timer): while a submitted turn is pending the
\* retry timeout is armed.
C33_PendingHasTimer == screen.pendingSubmit # 0 => screen.retryLive

\* C33 (resending, and its end): the retry timeout of a pending turn resends it
\* when the client is playing on an open socket; game_state, game_complete,
\* opponent_disconnected and the errors NOT_YOUR_TURN and GAME_COMPLETED drop the
\* pending copy; every submit_turn sent is the copy of a turn that none of these
\* events, nor an unmount, has ended.
C33_ResendUntil ==
    [][/\ (/\ RetryFire
           /\ screen.mounted /\ ~screen.navigated /\ screen.pendingSubmit # 0
           /\ client.matchStatus = "playing"
           /\ client.wsRef # NoSock /\ client.sock[client.wsRef] = "OPEN") =>
             /\ SendsSubmit
             /\ screen'.passed = screen.pendingSubmit
             /\ screen'.retryLive
       /\ \A s \in SockIds, type \in StopTypes, mine \in BOOLEAN :
             (GameFrame(s, type, mine) /\ screen.mounted /\ ~screen.navigated) =>
                /\ screen'.pendingSubmit = 0
                /\ ~screen'.retryLive
                /\ ~SendsSubmit
       /\ SendsSubmit =>
             /\ screen'.passed # 0
             /\ screen'.passed > screen'.settled
             /\ screen'.passed = screen'.pendingSubmit]_vars

\* C33: the two parts together.
C33_SubmitRetry == []C33_PendingHasTimer /\ C33_ResendUntil

\* the second turn is being resent after the resending of the first has ended
C33_Witness ==
    /\ screen.turnNo = 2
    /\ screen.settled = 1
    /\ screen.passed = 2
    /\ screen.seenSubmitting
    /\ Len(client.out) = 1
    /\ client.out[1].type = "submit_turn"


\* ---- bindings and seats -----------------------------------------------------------------
Roles == {"player1", "player2"}

\* C34: a registered connection c has gameId = g and playerRole = r exactly when
\* room g is registered and its seat r is c.
C34_BindingsAgree ==
    \A c \in connections, g \in GameIds, r \in Roles :
       (conn[c].gameId = g /\ conn[c].playerRole = r)
          <=> (g \in gameRooms /\ Seat(room[g], r) = c)


\* ---------------------------------------------------------------------------
\* C35: no room has the same connection in both of its seats, whatever the
\* interleaving of join_queue, disconnects and failures of the pairing's
\* storage calls.
C35_DistinctSeats ==
    \A g \in gameRooms : room[g].player1 # room[g].player2


\* ---------------------------------------------------------------------------
\* ---- leaving the queue ----------------------------------------------------
\* ws.on("message") for a join_queue or leave_queue frame that passes the rate
\* limiter, with the history of the connection's queue_left kept: a join_queue
\* the connection sends ends it, a queue_left it is sent starts it
QueueMessage(c, frame) ==
    /\ c \in connections
    /\ conn[c].readyState = "OPEN"
    /\ LET S == handleMessage(Cur, c, FALSE, frame)
           wasLeft == \E i \in 1..Len(S.sent) :
                         S.sent[i].to = c /\ S.sent[i].type = "queue_left"
       IN  /\ BagCardinality(S.matchTasks) <= MaxQueueTasks
           /\ Commit([S EXCEPT !.leftQueue =
                         IF frame.parsed.type = "join_queue" THEN @ \ {c}
                         ELSE IF wasLeft THEN @ \cup {c}
                         ELSE @])

\* Connections join and leave the queue, disconnect and are paired, within one
\* clock tick; the storage calls of the pairing succeed or fail.
NextLeave ==
    \/ nextConnId <= MaxQueueConns /\ Connect
    \/ \E c \in ConnIds : SocketClose(c)
    \/ \E c \in ConnIds : CloseEvent(c)
    \/ \E t \in BagToSet(matchTasks), ok \in BOOLEAN :
          (ok => FreshGameIds(Cur) = GameIds) /\ MatchCreateGameDone(t, ok)
    \/ \E t \in BagToSet(matchTasks), ok \in BOOLEAN : MatchUpdateGameDone(t, ok)
    \/ \E c \in ConnIds, frame \in QueueFrames : QueueMessage(c, frame)

SpecLeave == Init /\ [][NextLeave]_vars

\* C36: a connection that was sent queue_left and has sent no join_queue since
\* is not seated in a new room and is sent no match_found, also when its
\* leave_queue came while a suspended attemptMatchmaking held it.
C36_LeftStaysOut ==
    [][\A c \in leftQueue' :
          /\ ~\E i \in 1..Len(sent') :
                sent'[i].to = c /\ sent'[i].type = "match_found"
          /\ \A g \in gameRooms' \ gameRooms :
                room'[g].player1 # c /\ room'[g].player2 # c]_vars


\* ---------------------------------------------------------------------------
\* the registered rooms that have connection c in one of their seats
RoomsOf(c) == {g \in gameRooms : room[g].player1 = c \/ room[g].player2 = c}

\* C37: an opponent_stroke, opponent_undo or opponent_clear is sent to a seat
\* only while the room of that seat is active: no room that is completed or
\* abandoned relays a drawing event.
C37_RelayOnlyActive ==
    \A i \in 1..Len(sent) :
        sent[i].type \in RelayTypes =>
            \A g \in RoomsOf(sent[i].to) : room[g].status = "active"


\* ---------------------------------------------------------------------------
\* ---- joining again after a game ---------------------------------------------
\* The two players of a room play it, lose their sockets and send join_queue,
\* while the clock advances and the room cleanup timer keeps running; the
\* pairing of two players that have joined again stays suspended.
NextRejoin ==
    \/ \E c \in ConnIds : SocketClose(c)
    \/ \E c \in ConnIds : CloseEvent(c)
    \/ \E t \in BagToSet(submitTasks), ok \in BOOLEAN : SubmitCreateTurnDone(t, ok)
    \/ \E t \in BagToSet(submitTasks), ok \in BOOLEAN : SubmitUpdateGameDone(t, ok)
    \/ \E c \in ConnIds : submitTasks = EmptyBag /\ Message(c, FALSE, SubmitFrame)
    \/ \E c \in ConnIds : Message(c, FALSE, JoinFrame)
    \/ RoomCleanupSweep
    \/ Tick

SpecRejoin ==
    /\ InitRoom
    /\ [][NextRejoin]_vars
    /\ WF_vars(RoomCleanupSweep)
    /\ WF_vars(Tick)

\* connection c is registered, its socket is open and it is bound to a registered
\* room that is completed or abandoned
BoundToEnded(c) ==
    /\ c \in connections
    /\ conn[c].readyState = "OPEN"
    /\ conn[c].gameId # NoGame
    /\ Ended(conn[c].gameId)

\* C38 (rejected): the join_queue of a connection bound to an ended room is
\* answered with ALREADY_IN_GAME and nothing else.
C38_Rejected ==
    [][\A c \in ConnIds :
          (BoundToEnded(c) /\ Message(c, FALSE, JoinFrame)) =>
             /\ sent' = <<[to |-> c] @@ ErrorMsg("ALREADY_IN_GAME")>>
             /\ matchmakingQueue' = matchmakingQueue]_vars

\* C38 (bound until the sweep): a connection bound to an ended room that stays
\* registered loses the binding only in a step of the room cleanup timer, which
\* removes the room more than 120 s after it ended.
C38_BoundUntilSweep ==
    [][\A c \in ConnIds :
          (BoundToEnded(c) /\ c \in connections' /\ conn'[c].gameId # conn[c].gameId) =>
             /\ RoomCleanupSweep
             /\ conn'[c].gameId = NoGame
             /\ conn'[c].playerRole = NullRole
             /\ conn[c].gameId \notin gameRooms'
             /\ EndedFor(conn[c].gameId) > ROOM_CLEANUP_DELAY]_vars

\* C38 (accepted): once the sweep has cleared the binding, the connection's
\* join_queue is accepted: it is queued and sent queue_joined.
C38_Accepted ==
    [][\A c \in ConnIds :
          (/\ c \in connections
           /\ conn[c].gameId = NoGame
           /\ ~Includes(matchmakingQueue, c)
           /\ Message(c, FALSE, JoinFrame)) =>
             /\ Len(sent') >= 1
             /\ sent'[1].to = c
             /\ sent'[1].type = "queue_joined"
             /\ \/ Includes(matchmakingQueue', c)
                \/ \E t \in BagToSet(matchTasks') : t.p1Id = c \/ t.p2Id = c]_vars

\* C38 (eventually): a connection bound to an ended room loses the binding, unless
\* it disconnects or the model's clock stops before the room's 120 s have passed.
C38_Eventually ==
    \A c \in 1..PairSize :
        BoundToEnded(c) ~>
            \/ c \in connections /\ conn[c].gameId = NoGame
            \/ c \notin connections
            \/ conn[c].readyState # "OPEN"
            \/ /\ ClockStopped
               /\ BoundToEnded(c)
               /\ EndedFor(conn[c].gameId) <= ROOM_CLEANUP_DELAY

\* C38: a connection whose room is completed or abandoned stays bound to it and
\* has its join_queue rejected with ALREADY_IN_GAME until the room cleanup timer
\* removes the room and clears the binding; after that its join_queue is
\* accepted, and every such connection that stays connected gets there.
C38_JoinAgain ==
    C38_Rejected /\ C38_BoundUntilSweep /\ C38_Accepted /\ C38_Eventually

\* C38 witness: room 1 was completed and removed by the cleanup timer, and
\* connection 1, rejected with ALREADY_IN_GAME before, has just been accepted by
\* join_queue
C38_Witness ==
    /\ 1 \notin gameRooms
    /\ room[1].status = "completed"
    /\ conn[1].gameId = NoGame
    /\ matchmakingQueue = <<1>>
    /\ sent = <<[to |-> 1, type |-> "queue_joined", position |-> 1]>>


\* ---------------------------------------------------------------------------
\* ---- the rounds of a room --------------------------------------------------
\* The two players of a room send submit_turn, also while earlier ones are being
\* handled, and lose their sockets, within one clock tick; the storage calls
\* succeed or fail.
NextRounds ==
    \/ \E c \in ConnIds : SocketClose(c)
    \/ \E c \in ConnIds : CloseEvent(c)
    \/ \E t \in BagToSet(submitTasks), ok \in BOOLEAN : SubmitCreateTurnDone(t, ok)
    \/ \E t \in BagToSet(submitTasks), ok \in BOOLEAN : SubmitUpdateGameDone(t, ok)
    \/ \E c \in ConnIds, frame \in RoomFrames : Message(c, FALSE, frame)

SpecRounds == InitRoom /\ [][NextRounds]_vars

\* the round counter and the turn holder of every room object are in range
C39_InRange ==
    \A g \in GameIds :
        /\ 1 <= room[g].currentRound
        /\ room[g].currentRound <= room[g].totalRounds
        /\ room[g].currentPlayer \in Roles

\* no step lowers the round counter of a room
C39_NeverDecreases ==
    [][\A g \in GameIds : room'[g].currentRound >= room[g].currentRound]_vars

\* C39: in every room and every reachable state 1 <= currentRound <= totalRounds
\* and currentPlayer is player1 or player2, and currentRound never decreases.
C39_RoundBounds == []C39_InRange /\ C39_NeverDecreases

\* C39 witness: room 1 has been played to the last round and completed, and a
\* second submit_turn of player2, received before the first one resumed, has
\* then moved the turn to player2 again without touching the round counter
C39_Witness ==
    /\ room[1].status = "completed"
    /\ room[1].currentRound = room[1].totalRounds
    /\ room[1].currentPlayer = "player2"
    /\ \E t \in BagToSet(submitTasks) : t.kind = "flip" /\ t.tRole = "player2"


\* ---------------------------------------------------------------------------
\* the WebSockets of the client that are open or connecting
AliveSockets == {s \in SockIds : client.sock[s] \in {"OPEN", "CONNECTING"}}

\* the client holds at most one WebSocket that is open or connecting
C40_OneSocket == Cardinality(AliveSockets) <= 1

\* the close event of a socket that disconnect() closed, firing when wsRef
\* already holds a newer socket, leaves the reference, the ping timer and the
\* reconnect timer as they are and schedules no reconnect
C40_OldClose ==
    [][\A s \in SockIds :
          (/\ client.sock[s] = "CLOSING"
           /\ client.wsRef \notin {NoSock, s}
           /\ SocketClosed(s)) =>
             /\ client'.wsRef = client.wsRef
             /\ client'.pingTimer = client.pingTimer
             /\ client'.timerPending = client.timerPending
             /\ client'.reconnectAttempt = client.reconnectAttempt]_vars

\* C40: the client holds at most one WebSocket that is open or connecting, and
\* after disconnect() the close event of the old socket neither schedules a
\* reconnect nor clears the reference and timers of a newer socket, also when
\* connect() runs again before that close event.
C40_SingleSocket == []C40_OneSocket /\ C40_OldClose
====
